---- MODULE Spec2Model ----
(***************************************************************************)
(* Model of the FEO runtime of qorix-group/inc_feo: the primary agent's    *)
(* connection phase and scheduler (feo/src/agent/primary.rs), the          *)
(* secondary agent (feo/src/agent/secondary.rs), the recorder              *)
(* (feo/src/recording/recorder.rs) and the workers                         *)
(* (feo/src/worker_pool/worker.rs), with the queues and streams that       *)
(* connect them.                                                           *)
(*                                                                         *)
(* Timestamps are logical: a signal the scheduler stamps carries the       *)
(* number of the cycle it was emitted in (0 in the startup phase), and a   *)
(* Ready carries the stamp of the trigger it answers.                      *)
(***************************************************************************)
EXTENDS Integers, Sequences, FiniteSets, TLC

\* ------------------------------------------------------------------ bounds

\* Number of task chain cycles the scheduler loop is followed for.
MaxCycles == 2
\* Number of RecorderReady frames a peer sends beyond the ones the recorder
\* code sends (repeated, or carrying an id that is no registered recorder).
MaxSpurious == 1
\* Number of connections to the listener that no expected peer's code opens.
MaxRogue == 1
\* Number of frames written to trigger streams by no code of the primary.
MaxForeign == 1
\* Longest time, in clock ticks, the scheduler spends blocked in one cycle.
MaxElapsed == 4
\* Number of signals put into the trigger queues of the workers on their own.
MaxFeed == 3
\* Number of calls into timestamp.rs a process is followed for.
MaxCalls == 3
\* Latest instant of the monotonic clock the time base is followed to.
MaxClock == 4
\* Largest number of calls of the dependency builder followed.
MaxAdds == 2

\* Largest number of activities assigned to one worker in an assignment list.
MaxGroup == 2

\* ------------------------------------------------------------------ helpers

Range(s) == {s[i] : i \in DOMAIN s}

RECURSIVE SeqOfSet_descending(_)
\* The elements of a finite set of integers in descending order
SeqOfSet_descending(S) ==
    IF S = {} THEN <<>>
    ELSE LET m == CHOOSE x \in S : \A y \in S : x >= y
         IN  <<m>> \o SeqOfSet_descending(S \ {m})

RECURSIVE SeqOfSet(_)
\* The elements of a finite set of integers in ascending order
\* (Vec::sort of the collected keys).
SeqOfSet(S) ==
    IF S = {} THEN <<>>
    ELSE LET m == CHOOSE x \in S : \A y \in S : x <= y
         IN  <<m>> \o SeqOfSet(S \ {m})

Orders(S) ==
    {s \in [1..Cardinality(S) -> S] : \A i, j \in DOMAIN s : i # j => s[i] # s[j]}

\* ------------------------------------------------------------------ signals

Signal(tag, id, ts) == [tag |-> tag, id |-> id, ts |-> ts]
NoId == "none"
NoSignal == [tag |-> "None", id |-> NoId, ts |-> 0]

\* Signal::activity_id: the wrapped activity id, or None
HasActivityId(sig) == sig.tag \in {"Startup", "Shutdown", "Step", "Ready"}

\* ------------------------------------------------------------------ signal PDUs

\* inter_proc_socket.rs: the size of the data buffer of a SignalPdu
MAX_PDU_DATA_SIZE == 16
\* SignalPdu::send, SignalPdu::read: BUF_SIZE, the tag byte and the u16 length
BUF_SIZE == 3
\* size_of::<usize>() and size_of::<u64>() on the 64-bit targets of the runtime
WORD_SIZE == 8

\* enum SignalTag, #[repr(u8)]: the discriminant of each variant
SignalTag ==
    [HelloTrigger |-> 0, HelloReady |-> 1, StartupSync |-> 2, TaskChainStart |-> 3,
     TaskChainEnd |-> 4, Startup |-> 5, Shutdown |-> 6, Step |-> 7, Ready |-> 8,
     RecorderReady |-> 9]

\* impl TryFrom<u8> for SignalTag: the variant of a tag byte, or InvalidData
SignalTag_try_from(value) ==
    IF \E v \in DOMAIN SignalTag : SignalTag[v] = value
    THEN CHOOSE v \in DOMAIN SignalTag : SignalTag[v] = value
    ELSE "InvalidData"

\* The values a signal variant wraps, in the order of its tuple. A signal on
\* a stream is Signal(tag, id, ts) with numbers for the id and the time, and
\* 0 for a value its variant does not have.
Fields(tag) ==
    IF tag \in {"HelloTrigger", "HelloReady"} THEN <<"id">>
    ELSE IF tag \in {"StartupSync", "TaskChainStart", "TaskChainEnd"} THEN <<"ts">>
    ELSE <<"id", "ts">>

\* usize::to_be_bytes, u64::to_be_bytes, u16::to_be_bytes
RECURSIVE to_be_bytes(_, _)
to_be_bytes(n, size) ==
    IF size = 0 THEN <<>> ELSE Append(to_be_bytes(n \div 256, size - 1), n % 256)

\* usize::from_be_bytes, u64::from_be_bytes, u16::from_be_bytes
RECURSIVE from_be_bytes(_)
from_be_bytes(bytes) ==
    IF bytes = <<>> THEN 0
    ELSE 256 * from_be_bytes(SubSeq(bytes, 1, Len(bytes) - 1)) + bytes[Len(bytes)]

RECURSIVE Flatten(_)
Flatten(seqs) == IF seqs = <<>> THEN <<>> ELSE Head(seqs) \o Flatten(Tail(seqs))

Zeros(n) == [i \in 1..n |-> 0]

\* SignalPdu::default
NoPdu == [tag |-> "HelloTrigger", data_len |-> 0, data |-> Zeros(MAX_PDU_DATA_SIZE)]

\* encode_pdu! and encode_header: the values big-endian one after the other
\* from offset 0, the rest of the data buffer left zero
encode_pdu(tag, values) ==
    LET bytes == Flatten([i \in 1..Len(values) |-> to_be_bytes(values[i], WORD_SIZE)])
    IN  [tag |-> tag, data_len |-> Len(bytes),
         data |-> bytes \o Zeros(MAX_PDU_DATA_SIZE - Len(bytes))]

\* impl From<&Signal> for SignalPdu
SignalPdu_from(signal) ==
    encode_pdu(signal.tag, [i \in 1..Len(Fields(signal.tag)) |-> signal[Fields(signal.tag)[i]]])

\* SignalPdu::send: the bytes written, the header and data[0..data_len]
Frame(pdu) ==
    <<SignalTag[pdu.tag]>> \o to_be_bytes(pdu.data_len, 2) \o SubSeq(pdu.data, 1, pdu.data_len)

\* SignalPdu::read: the declared data length of a header
HeaderDataLen(hdr) == from_be_bytes(SubSeq(hdr, 2, BUF_SIZE))

\* SignalPdu::read: the PDU of a header and its data, once both are read
ReadPdu(hdr, data) ==
    [tag |-> SignalTag_try_from(hdr[1]), data_len |-> Len(data),
     data |-> data \o Zeros(MAX_PDU_DATA_SIZE - Len(data))]

\* decode_pdu_data!: the assertion on the data length holds for each of the
\* count values decoded
DecodeAsserts(pdu, count) == count * WORD_SIZE <= pdu.data_len

\* A variant of decode_pdu_data that does not advance its offset: every
\* value is read from the start of the data.
decode_pdu_data_no_offset(pdu, i) ==
    from_be_bytes(SubSeq(pdu.data, 1, WORD_SIZE))

\* decode_pdu_data!: the value at the given position
decode_pdu_data(pdu, i) ==
    from_be_bytes(SubSeq(pdu.data, (i - 1) * WORD_SIZE + 1, i * WORD_SIZE))

\* impl TryFrom<&SignalPdu> for Signal, where the assertions hold
Signal_try_from(pdu) ==
    LET f == Fields(pdu.tag)
        value(name) == IF \E i \in 1..Len(f) : f[i] = name
                       THEN decode_pdu_data(pdu, CHOOSE i \in 1..Len(f) : f[i] = name)
                       ELSE 0
    IN  Signal(pdu.tag, value("id"), value("ts"))

\* What a reader makes of a frame that arrives whole: SignalPdu::read
\* returns an error (length above the maximum, or unknown tag), or
\* Signal::try_from panics on its assertion, or there is a signal
FrameOutcome(frame) ==
    LET hdr == SubSeq(frame, 1, BUF_SIZE)
        pdu == ReadPdu(hdr, SubSeq(frame, BUF_SIZE + 1, BUF_SIZE + HeaderDataLen(hdr)))
    IN  IF HeaderDataLen(hdr) > MAX_PDU_DATA_SIZE \/ pdu.tag = "InvalidData" THEN "error"
        ELSE IF ~DecodeAsserts(pdu, Len(Fields(pdu.tag))) THEN "panic"
        ELSE "signal"

\* Sample ids (usize) and times (u64 nanoseconds): one, two and four byte
\* wide values, each with distinct bytes where it has more than one
SampleIds == {0, 1, 258, 16909060}
SampleTimes == {0, 255, 66051}

\* The signals of all ten variants over the sample values
CodecSignals ==
    {Signal(tag, id, 0) : tag \in {"HelloTrigger", "HelloReady"}, id \in SampleIds}
    \cup {Signal(tag, 0, ts) : tag \in {"StartupSync", "TaskChainStart", "TaskChainEnd"},
                               ts \in SampleTimes}
    \cup {Signal(tag, id, ts) : tag \in {"Startup", "Shutdown", "Step", "Ready", "RecorderReady"},
                                id \in SampleIds, ts \in SampleTimes}

\* Frames no code of the runtime writes: an unknown tag, a declared length
\* above the maximum, and a payload shorter than the variant needs
UnknownTagFrames == {<<10, 0, 0>>, <<200, 0, 8>> \o to_be_bytes(1, WORD_SIZE)}
TooLongFrames == {<<0, 0, 17>> \o Zeros(17), <<8, 1, 0>>}
ShortPayloadFrames == {<<0, 0, 0>>, <<8, 0, 8>> \o to_be_bytes(1, WORD_SIZE), <<1, 0, 4, 0, 0, 0, 1>>}
MalformedFrames == UnknownTagFrames \cup TooLongFrames \cup ShortPayloadFrames

\* A frame on a connection given by its bytes: one that no code of the
\* runtime has written
RawFrame(bytes) == [tag |-> "Raw", id |-> NoId, ts |-> 0, bytes |-> bytes]
IsRaw(frame) == frame.tag = "Raw"

\* ------------------------------------------------------------------ configuration

\* Id of the primary agent (PrimaryAgentConfig::agent_id)
local_agent_id == "P"

\* Agent maps: agent -> worker -> activities (PrimaryAgentConfig::agent_map)
AgentMapLocal  == ("P" :> ("W1" :> <<1, 2, 3>>))
AgentMapSplit  == ("P" :> ("W1" :> <<1>>)) @@ ("S1" :> ("W2" :> <<2>> @@ "W3" :> <<3>>))
AgentMapRemote == ("P" :> ("W1" :> <<1>>)) @@ ("S1" :> ("W2" :> <<2>>))

\* Dependency maps: activity -> activities it depends on
\* (PrimaryAgentConfig::activity_depends). The scheduler takes the map as it
\* is given: nothing rejects a dependency that is no key of the map, a cycle
\* or a self dependency.
DepSingle   == (1 :> {})
DepPair     == (1 :> {}) @@ (2 :> {})
DepTwo      == (1 :> {}) @@ (2 :> {1})
DepChain    == (1 :> {}) @@ (2 :> {1}) @@ (3 :> {2})
DepJoin     == (1 :> {}) @@ (2 :> {}) @@ (3 :> {1, 2})
DepFork     == (1 :> {}) @@ (2 :> {1}) @@ (3 :> {1})
DepDangling == (1 :> {}) @@ (2 :> {3})
DepCycle    == (1 :> {}) @@ (2 :> {3}) @@ (3 :> {2})
DepSelf     == (1 :> {}) @@ (2 :> {2})

Config(am, deps, recs) ==
    [agent_map |-> am, activity_depends |-> deps, recorders |-> recs, cycle_time |-> 2]

\* The deployment with another cycle time, in clock ticks
WithCycleTime(c, t) == [c EXCEPT !.cycle_time = t]

\* The deployments the scheduler is run in
RunConfigs ==
    { Config(AgentMapLocal, DepChain, {}),
      Config(AgentMapLocal, DepJoin, {}),
      Config(AgentMapLocal, DepFork, {}),
      Config(AgentMapLocal, DepDangling, {}),
      Config(AgentMapLocal, DepCycle, {}),
      Config(AgentMapLocal, DepSelf, {}),
      Config(AgentMapSplit, DepJoin, {}),
      Config(AgentMapSplit, DepFork, {}),
      Config(AgentMapLocal, DepPair, {"R1"}),
      Config(AgentMapRemote, DepTwo, {"R1"}),
      Config(AgentMapLocal, DepSingle, {"R1", "R2"}) }

\* The deployments with recorders the recorder fence is run in
FenceConfigs ==
    { Config(AgentMapRemote, DepTwo, {"R1"}),
      Config(AgentMapLocal, DepSingle, {"R1", "R2"}) }

\* The cycle times of the deployments the cycle timing is run in
CycleTimes == {2, 3}

\* The deployments the cycle timing is run in
TimeConfigs == {WithCycleTime(Config(AgentMapRemote, DepTwo, {"R1"}), t) : t \in CycleTimes}

\* The deployments the workers are run in on their own
WorkerConfigs == {Config(AgentMapRemote, DepTwo, {})}

\* The deployments the connection phase is run in
ConnConfigs ==
    { Config(AgentMapRemote, DepTwo, {}),
      Config(AgentMapRemote, DepTwo, {"R1"}) }

\* Startup times of the primary, as time since the epoch (never 0)
StartupTimes == {1, 2}
OneStartupTime == {1}

\* An agent id that is neither a secondary nor a recorder of any configuration
UnexpectedId == "X"

\* ------------------------------------------------------------------ state

VARIABLES
    \* configuration, fixed at construction
    agent_map,          \* PrimaryAgentConfig::agent_map
    activity_depends,   \* Scheduler::activity_depends
    depends_order,      \* iteration order of the activity_depends HashMap
    recorders,          \* ActivityConnector::recorders
    startup_time,       \* the primary's STARTUP_TIME (timestamp::initialize), since the epoch
    cycle_time,         \* Scheduler::cycle_time, in clock ticks
    \* primary agent
    pc,                 \* position of the primary's main thread
    activity_states,    \* Scheduler::activity_states
    recorders_ready,    \* ActivityConnector::recorders_ready
    cycle,              \* number of task chain cycles started
    intra_ready,        \* the scheduler's intra-process ready channel (mpsc)
    listening,          \* the listener socket is bound
    backlog,            \* connections pending at the listener, oldest first
    listen_event,       \* a readiness event of the listener is pending in its Poll
    accepted,           \* connection accepted by wait_and_handle_hello, hello not yet read
    streams_trigger,    \* connect_remotes: retained trigger streams, agent -> connection
    streams_ready,      \* connect_remotes: retained ready streams, agent -> connection
    \* TCP connections: frames written and not yet read, per direction
    up,                 \* connection -> frames client to primary
    down,               \* connection -> frames primary to client
    \* secondaries, recorders, workers
    peer_pc,            \* position of each secondary / recorder main thread
    sec_ready,          \* each secondary's intra-process ready channel
    worker_trigger,     \* each worker's trigger queue
    running,            \* each worker: the trigger whose method it is executing
    rec_log,            \* each recorder: the signals it has recorded, in order
    peer_time,          \* each secondary / recorder: its STARTUP_TIME, 0 while not initialised
    \* time
    now,                \* the monotonic clock of the primary (Instant::now), in ticks
    task_chain_start,   \* Scheduler::run: the instant taken at the top of the loop
    start_flush,        \* Scheduler::run: the instant taken before record_task_chain_end
    sleep_log,          \* per finished cycle: its start, its durations and what was slept
    \* environment budgets and history
    rogue,              \* connections opened so far by no expected peer
    spurious,           \* RecorderReady frames sent so far beyond the recorder code's
    foreign,            \* frames written so far to a trigger stream by no code of the primary
    wire,               \* connection -> all frames the primary has written to it, in order
    hellos,             \* first frames read by wait_and_handle_hello, with their connection
    worker_log,         \* each worker: what it received, called and sent, in order
    trace,              \* what the primary's main thread emitted and received, in order
    ipc_pc,             \* position of the primary's ready receiver thread
    \* one stream socket with its writer and its reader, byte by byte
    tx_signal,          \* the signal the writer sends
    tx_frame,           \* the bytes SignalPdu::send writes for it
    tx_sent,            \* how many of them are written
    tcp_stream,         \* the bytes written and not yet read
    closed,             \* the writer has closed the connection
    rd_pc,              \* position of the reader
    waiting,            \* the reader is in wait_readable
    buffer,             \* read_buffer: the bytes read so far
    header,             \* SignalPdu::read: the header once it is read
    rx_pdu,             \* the PDU returned by recv
    rx_signal,          \* the signal decoded from it
    \* the time base of one process (timestamp.rs)
    STARTUP_TIME,       \* the OnceLock<TimeInfo>
    clock,              \* std::time: the system time since the epoch and the instant
    FACTOR,             \* feo_time: the speed factor, 0 for none
    callers,            \* each thread: the call it is in
    base_log,           \* the calls finished, with their results, in order
    \* construction of the agents from an assignment list
    assignment,         \* the agent map handed to the constructors
    primary_new,        \* PrimaryAgent::new and run: how far it got
    pool_new,           \* each agent's WorkerPool::new: how far it got
    dep_map,            \* the ActivityDependencies map under construction
    last_add,           \* the last call of the dependency builder
    adds,               \* the number of calls of the dependency builder
    declared,           \* the activities add_dependencies was called for
    \* one log record, encoded and decoded
    record,             \* the Record to encode
    buf,                \* the bytes Record::encode wrote
    decoded,            \* the result of OwnedRecord::decode
    record_pc           \* how far the record got

cfg_vars == <<agent_map, activity_depends, depends_order, recorders, startup_time, cycle_time>>
time_vars == <<now, task_chain_start, start_flush, sleep_log>>
conn_vars == <<listening, backlog, listen_event, accepted, streams_trigger, streams_ready>>
writer_vars == <<tx_signal, tx_frame, tx_sent>>
reader_vars == <<rd_pc, waiting, buffer, header, rx_pdu, rx_signal>>
stream_vars == <<writer_vars, tcp_stream, closed, reader_vars>>
base_vars == <<STARTUP_TIME, clock, FACTOR, callers, base_log>>
build_vars == <<assignment, primary_new, pool_new, dep_map, last_add, adds, declared>>
record_vars == <<record, buf, decoded, record_pc>>
unit_vars == <<stream_vars, base_vars, build_vars, record_vars>>
sys_vars == <<agent_map, activity_depends, depends_order, recorders, startup_time, cycle_time,
          now, task_chain_start, start_flush, sleep_log, pc, activity_states,
          recorders_ready, cycle, intra_ready, listening, backlog, listen_event,
          accepted, streams_trigger, streams_ready, up, down, peer_pc, sec_ready,
          worker_trigger, running, rec_log, peer_time, rogue, spurious, foreign, wire,
          hellos, worker_log, trace, ipc_pc>>
vars == <<sys_vars, unit_vars>>

\* ------------------------------------------------------------------ derived configuration

\* ActivityConnector::new: the secondary agents are the agents of the map
\* other than the local one
secondary_agents == DOMAIN agent_map \ {local_agent_id}

Peers == secondary_agents \cup recorders

\* The workers of the deployment, as <<agent, worker>>
Workers == UNION {{<<g, w>> : w \in DOMAIN agent_map[g]} : g \in DOMAIN agent_map}

\* The activities a worker owns (the builders handed to Worker::new)
WorkerActivities(wk) == Range(agent_map[wk[1]][wk[2]])

\* ActivityConnector::new: map from activity to <<agent, worker>>
activity_map ==
    [a \in UNION {WorkerActivities(wk) : wk \in Workers} |->
        CHOOSE wk \in Workers : a \in WorkerActivities(wk)]

\* WorkerPool::new: the pool of an agent owns one trigger sender per activity
PoolActivities(g) == UNION {WorkerActivities(wk) : wk \in {x \in Workers : x[1] = g}}

\* Connections: the two an expected peer opens, and the rogue ones
InConn(p) == <<p, 1>>
OutConn(p) == <<p, 2>>
RogueConn(k) == <<"rogue", k>>
ConnIds == {InConn(p) : p \in Peers} \cup {OutConn(p) : p \in Peers}
              \cup {RogueConn(k) : k \in 1..MaxRogue}
NoConn == <<"none", 0>>

\* ------------------------------------------------------------------ primary: connection phase

\* has_all_conns that looks at the trigger streams only
has_all_conns_trigger_only ==
    /\ \A x \in secondary_agents : x \in DOMAIN streams_trigger
    /\ \A x \in recorders : x \in DOMAIN streams_trigger

\* connect_remotes: the loop's exit condition
has_all_conns ==
    /\ \A x \in secondary_agents : x \in DOMAIN streams_trigger
    /\ \A x \in secondary_agents : x \in DOMAIN streams_ready
    /\ \A x \in recorders : x \in DOMAIN streams_trigger
    /\ \A x \in recorders : x \in DOMAIN streams_ready

\* RetainStream that replaces the stream an id already has
RetainStream_replace(streams, id, stream) ==
    IF id \in secondary_agents \/ id \in recorders
    THEN (id :> stream) @@ streams
    ELSE streams

\* handle_hello, one role: retain the stream under the id if the id is
\* expected and has no stream of that role yet, otherwise drop it
RetainStream(streams, id, stream) ==
    IF id \in secondary_agents \/ id \in recorders
    THEN IF id \notin DOMAIN streams
         THEN (id :> stream) @@ streams
         ELSE streams
    ELSE streams

\* handle_hello: the retained trigger streams after the signal
HandleHelloTrigger(signal, stream) ==
    IF signal.tag = "HelloTrigger"
    THEN RetainStream(streams_trigger, signal.id, stream)
    ELSE streams_trigger

\* handle_hello: the retained ready streams after the signal
HandleHelloReady(signal, stream) ==
    IF signal.tag = "HelloTrigger" THEN streams_ready
    ELSE IF signal.tag = "HelloReady"
         THEN RetainStream(streams_ready, signal.id, stream)
         ELSE streams_ready

\* A run that starts to connect without initialising the time base
PrimaryInitialize_skipped ==
    /\ pc = "initialize"
    /\ pc' = "bind"
    /\ UNCHANGED listening
    /\ UNCHANGED <<cfg_vars, activity_states, recorders_ready, cycle, intra_ready,
                   backlog, listen_event, accepted, streams_trigger, streams_ready,
                   up, down, peer_pc, sec_ready, worker_trigger, running, rec_log,
                   rogue, spurious, hellos, trace,
                   wire,
                   peer_time, foreign,
                   time_vars, worker_log, ipc_pc, unit_vars>>

\* PrimaryAgent::run, first statement: timestamp::initialize() takes the
\* system time of the call as the startup time of the primary
PrimaryInitialize ==
    /\ pc = "initialize"
    /\ startup_time = 0
    /\ startup_time' \in StartupTimes
    /\ pc' = "bind"
    /\ UNCHANGED <<agent_map, activity_depends, depends_order, recorders, cycle_time, listening>>
    /\ UNCHANGED <<activity_states, recorders_ready, cycle, intra_ready,
                   backlog, listen_event, accepted, streams_trigger, streams_ready,
                   up, down, peer_pc, sec_ready, worker_trigger, running, rec_log,
                   rogue, spurious, hellos, trace,
                   wire,
                   peer_time, foreign,
                   time_vars, worker_log, ipc_pc, unit_vars>>

\* connect_remotes: bind the listener and register it for polling
Bind ==
    /\ pc = "bind"
    /\ listening' = TRUE
    /\ pc' = "connect"
    /\ UNCHANGED <<cfg_vars, activity_states, recorders_ready, cycle, intra_ready,
                   backlog, listen_event, accepted, streams_trigger, streams_ready,
                   up, down, peer_pc, sec_ready, worker_trigger, running, rec_log,
                   rogue, spurious, hellos, trace,
                   wire,
                   peer_time, foreign,
                   time_vars, worker_log, ipc_pc, unit_vars>>

\* wait_and_handle_hello up to the blocking read of the hello: poll the
\* listener, which delivers one readiness event however many connections are
\* pending, and accept one connection for it
AcceptConnection ==
    /\ pc = "connect"
    /\ ~has_all_conns
    /\ listen_event
    /\ backlog # <<>>
    /\ listen_event' = FALSE
    /\ accepted' = Head(backlog)
    /\ backlog' = Tail(backlog)
    /\ pc' = "hello_recv"
    /\ UNCHANGED <<cfg_vars, activity_states, recorders_ready, cycle, intra_ready,
                   listening, streams_trigger, streams_ready, up, down, peer_pc,
                   sec_ready, worker_trigger, running, rec_log, rogue, spurious, hellos, trace,
                   wire,
                   peer_time, foreign,
                   time_vars, worker_log, ipc_pc, unit_vars>>

\* wait_and_handle_hello from the read of the hello on: receive the frame
\* (a failing recv panics), decode it (a failing assertion of the decoder
\* panics) and pass the signal to handle_hello
ReceiveHello ==
    /\ pc = "hello_recv"
    /\ up[accepted] # <<>>
    /\ hellos' = hellos \cup {[conn |-> accepted, sig |-> Head(up[accepted])]}
    /\ up' = [up EXCEPT ![accepted] = Tail(@)]
    /\ IF IsRaw(Head(up[accepted])) /\ FrameOutcome(Head(up[accepted]).bytes) # "signal"
       THEN /\ pc' = "panicked"
            /\ UNCHANGED <<streams_trigger, streams_ready, accepted>>
       ELSE /\ LET signal == Head(up[accepted]) IN
               /\ streams_trigger' = HandleHelloTrigger(signal, accepted)
               /\ streams_ready' = HandleHelloReady(signal, accepted)
            /\ accepted' = NoConn
            /\ pc' = "connect"
    /\ UNCHANGED <<cfg_vars, activity_states, recorders_ready, cycle, intra_ready,
                   listening, backlog, listen_event, down, peer_pc, sec_ready,
                   worker_trigger, running, rec_log, rogue, spurious, trace,
                   wire,
                   peer_time, foreign,
                   time_vars, worker_log, ipc_pc, unit_vars>>

\* connect_remotes after the loop: start the ready receiver thread, create
\* the sender; the listener is dropped on return
ConnectDone ==
    /\ pc = "connect"
    /\ has_all_conns
    /\ pc' = "sync"
    /\ listening' = FALSE
    /\ UNCHANGED <<cfg_vars, activity_states, recorders_ready, cycle, intra_ready,
                   backlog, listen_event, accepted, streams_trigger, streams_ready,
                   up, down, peer_pc, sec_ready, worker_trigger, running,
                   rec_log, rogue, spurious, hellos, trace,
                   wire,
                   peer_time, foreign,
                   time_vars, worker_log, ipc_pc, unit_vars>>

\* Entries of the history of the primary's main thread
Emitted(signal) == [dir |-> "emit", sig |-> signal]
Received(signal) == [dir |-> "recv", sig |-> signal]

\* MioMultiSocketSender::send of one signal to each of the given agents
SendEach(dn, agents, signal) ==
    [c \in DOMAIN dn |->
        IF \E g \in agents : g \in DOMAIN streams_trigger /\ streams_trigger[g] = c
        THEN Append(dn[c], signal)
        ELSE dn[c]]

\* timestamp::sync_info: the startup time of the calling process since the
\* epoch
sync_info == startup_time

\* A variant of initialize_from that takes the local system time of the
\* call as the startup time.
initialize_from_local_now(info) == clock.systime

\* timestamp::initialize_from: the startup time a process takes from the
\* received sync info (the epoch plus the received duration)
initialize_from(info) == 0 + info

\* sync_time that leaves out the recorders
SyncTime_secondaries_only ==
    /\ pc = "sync"
    /\ LET signal == Signal("StartupSync", NoId, sync_info) IN
       /\ down' = SendEach(down, secondary_agents, signal)
       /\ wire' = SendEach(wire, secondary_agents, signal)
       /\ trace' = Append(trace, Emitted(signal))
    /\ pc' = "startup"
    /\ UNCHANGED <<cfg_vars, activity_states, recorders_ready, cycle, intra_ready,
                   conn_vars, up, peer_pc, sec_ready, worker_trigger, running,
                   rec_log, rogue, spurious, hellos,
                   peer_time, foreign,
                   time_vars, worker_log, ipc_pc, unit_vars>>

\* sync_time: StartupSync to every secondary, then to every recorder
SyncTime ==
    /\ pc = "sync"
    /\ LET signal == Signal("StartupSync", NoId, sync_info) IN
       /\ down' = SendEach(SendEach(down, secondary_agents, signal), recorders, signal)
       /\ wire' = SendEach(SendEach(wire, secondary_agents, signal), recorders, signal)
       /\ trace' = Append(trace, Emitted(signal))
    /\ pc' = "startup"
    /\ UNCHANGED <<cfg_vars, activity_states, recorders_ready, cycle, intra_ready,
                   conn_vars, up, peer_pc, sec_ready, worker_trigger, running,
                   rec_log, rogue, spurious, hellos,
                   peer_time, foreign,
                   time_vars, worker_log, ipc_pc, unit_vars>>

\* ------------------------------------------------------------------ primary: scheduler

\* record_signal: the signal to every recorder
RecordSignal(dn, signal) == SendEach(dn, recorders, signal)

\* trigger_activity that does not hand the signal to the recorders
trigger_activity_unrecorded(q, signal) ==
    LET target == activity_map[signal.id]
    IN  IF target[1] = local_agent_id
        THEN [q EXCEPT !.wq[target] = Append(@, signal)]
        ELSE [q EXCEPT !.dn[streams_trigger[target[1]]] = Append(@, signal)]

\* trigger_activity on the queues q = [wq: trigger queues, dn: streams]:
\* to the local worker pool if the activity's agent is the local one,
\* otherwise over the trigger stream of its agent; then to the recorders
trigger_activity(q, signal) ==
    LET target == activity_map[signal.id]
        routed == IF target[1] = local_agent_id
                  THEN [q EXCEPT !.wq[target] = Append(@, signal)]
                  ELSE [q EXCEPT !.dn[streams_trigger[target[1]]] = Append(@, signal)]
    IN  [routed EXCEPT !.dn = RecordSignal(routed.dn, signal)]

RECURSIVE TriggerEach(_, _, _, _)
\* startup_activity / step_activity for each activity of a sequence, in order
TriggerEach(q, acts, tag, ts) ==
    IF acts = <<>> THEN q
    ELSE TriggerEach(trigger_activity(q, Signal(tag, Head(acts), ts)), Tail(acts), tag, ts)


\* The trace entries of the triggers of a sequence of activities
EmitEach(acts, tag, ts) == [i \in DOMAIN acts |-> Emitted(Signal(tag, acts[i], ts))]

\* is_all_ready with any in place of all
is_all_ready_any == \E a \in DOMAIN activity_states : activity_states[a].ready

\* is_all_ready
is_all_ready == \A a \in DOMAIN activity_states : activity_states[a].ready

\* Dependencies that are fulfilled only when every activity is ready
DependenciesReady_all_states(act_id) ==
    \A id \in DOMAIN activity_states : activity_states[id].ready

\* Dependencies that are taken as fulfilled whatever the ready flags
DependenciesReady_always(act_id) == act_id \in DOMAIN activity_depends

\* step_foreach_ready: the dependencies of an activity are fulfilled when
\* every entry of the state map whose id is among them is ready
DependenciesReady(act_id) ==
    \A id \in DOMAIN activity_states :
        id \in activity_depends[act_id] => activity_states[id].ready

\* A pass that does not skip the activities already triggered
ToStep_triggered_again ==
    SelectSeq(depends_order, LAMBDA a : DependenciesReady(a))

\* step_foreach_ready: the activities stepped by one pass, in the order of
\* the pass
ToStep ==
    SelectSeq(depends_order,
              LAMBDA a : ~activity_states[a].triggered /\ DependenciesReady(a))

\* Scheduler::run: Startup to every activity in ascending id order
StartupActivities ==
    /\ pc = "startup"
    /\ LET activity_ids == SeqOfSet(DOMAIN activity_states)
           q == TriggerEach([wq |-> worker_trigger, dn |-> down], activity_ids, "Startup", 0)
       IN /\ worker_trigger' = q.wq
          /\ down' = q.dn
          /\ wire' = TriggerEach([wq |-> worker_trigger, dn |-> wire], activity_ids, "Startup", 0).dn
          /\ trace' = trace \o EmitEach(activity_ids, "Startup", 0)
    /\ pc' = "startup_wait"
    /\ UNCHANGED <<cfg_vars, activity_states, recorders_ready, cycle, intra_ready,
                   conn_vars, up, peer_pc, sec_ready, running, rec_log, rogue, spurious, hellos,
                   peer_time, foreign,
                   time_vars, worker_log, ipc_pc, unit_vars>>

\* The startup wait loop left without looking at the ready flags
StartupComplete_no_wait ==
    /\ pc = "startup_wait"
    /\ pc' = "chain_start"
    /\ UNCHANGED <<cfg_vars, activity_states, recorders_ready, cycle, intra_ready,
                   conn_vars, up, down, peer_pc, sec_ready, worker_trigger, running,
                   rec_log, rogue, spurious, hellos, trace, wire, peer_time, foreign,
                   time_vars, worker_log, ipc_pc, unit_vars>>

\* Scheduler::run: the startup wait loop ends when all activities are ready
StartupComplete ==
    /\ pc = "startup_wait"
    /\ is_all_ready
    /\ pc' = "chain_start"
    /\ UNCHANGED <<cfg_vars, activity_states, recorders_ready, cycle, intra_ready,
                   conn_vars, up, down, peer_pc, sec_ready, worker_trigger, running,
                   rec_log, rogue, spurious, hellos, trace,
                   wire,
                   peer_time, foreign,
                   time_vars, worker_log, ipc_pc, unit_vars>>

\* Scheduler::wait_next_ready, one receive of ActivityConnector::wait_next_ready:
\* a Ready is mirrored to the recorders and sets the ready flag of its
\* activity; any other signal is logged and the receive repeated
WaitNextReady ==
    /\ \/ pc = "startup_wait" /\ ~is_all_ready
       \/ pc = "wait_ready"
    /\ intra_ready # <<>>
    /\ LET signal == Head(intra_ready) IN
       /\ trace' = Append(trace, Received(signal))
       /\ IF signal.tag = "Ready"
          THEN /\ down' = RecordSignal(down, signal)
               /\ wire' = RecordSignal(wire, signal)
               /\ IF signal.id \in DOMAIN activity_states
                  THEN /\ activity_states' = [activity_states EXCEPT ![signal.id].ready = TRUE]
                       /\ pc' = IF pc = "wait_ready" THEN "dispatch" ELSE pc
                  ELSE /\ activity_states' = activity_states
                       /\ pc' = "panicked"
          ELSE UNCHANGED <<down, wire, activity_states, pc>>
    /\ intra_ready' = Tail(intra_ready)
    /\ UNCHANGED <<cfg_vars, recorders_ready, cycle, conn_vars, up, peer_pc, sec_ready,
                   worker_trigger, running, rec_log, rogue, spurious, hellos,
                   peer_time, foreign,
                   time_vars, worker_log, ipc_pc, unit_vars>>

\* ClearedStates that leaves the ready flags as they are
ClearedStates_triggered_only ==
    [a \in DOMAIN activity_states |-> [activity_states[a] EXCEPT !.triggered = FALSE]]

\* Scheduler::run, top of the loop: every ready and triggered flag cleared
ClearedStates ==
    [a \in DOMAIN activity_states |-> [triggered |-> FALSE, ready |-> FALSE]]

\* Scheduler::run, top of the loop: record_task_chain_start, then clear the
\* ready and triggered flags
TaskChainStart ==
    /\ pc = "chain_start"
    /\ cycle < MaxCycles
    /\ cycle' = cycle + 1
    /\ down' = RecordSignal(down, Signal("TaskChainStart", NoId, cycle + 1))
    /\ wire' = RecordSignal(wire, Signal("TaskChainStart", NoId, cycle + 1))
    /\ trace' = Append(trace, Emitted(Signal("TaskChainStart", NoId, cycle + 1)))
    /\ activity_states' = ClearedStates
    /\ pc' = "dispatch"
    /\ task_chain_start' = now
    /\ UNCHANGED <<cfg_vars, recorders_ready, intra_ready, conn_vars, up, peer_pc,
                   sec_ready, worker_trigger, running, rec_log, rogue, spurious, hellos,
                   peer_time, foreign,
                   now, start_flush, sleep_log, worker_log, ipc_pc, unit_vars>>

\* Scheduler::run, inner loop while not all are ready: step_foreach_ready
StepForeachReady ==
    /\ pc = "dispatch"
    /\ ~is_all_ready
    /\ LET acts == ToStep
           q == TriggerEach([wq |-> worker_trigger, dn |-> down], acts, "Step", cycle)
       IN /\ worker_trigger' = q.wq
          /\ down' = q.dn
          /\ wire' = TriggerEach([wq |-> worker_trigger, dn |-> wire], acts, "Step", cycle).dn
          /\ trace' = trace \o EmitEach(acts, "Step", cycle)
          /\ activity_states' = [a \in DOMAIN activity_states |->
                                   IF a \in Range(acts)
                                   THEN [activity_states[a] EXCEPT !.triggered = TRUE]
                                   ELSE activity_states[a]]
    /\ pc' = "wait_ready"
    /\ UNCHANGED <<cfg_vars, recorders_ready, cycle, intra_ready, conn_vars, up, peer_pc,
                   sec_ready, running, rec_log, rogue, spurious, hellos,
                   peer_time, foreign,
                   time_vars, worker_log, ipc_pc, unit_vars>>

\* Scheduler::run after the inner loop: record_task_chain_end, then the
\* entry of wait_recorders_ready (return at once without recorders,
\* otherwise clear the recorders' ready flags)
TaskChainEnd ==
    /\ pc = "dispatch"
    /\ is_all_ready
    /\ down' = RecordSignal(down, Signal("TaskChainEnd", NoId, cycle))
    /\ wire' = RecordSignal(wire, Signal("TaskChainEnd", NoId, cycle))
    /\ trace' = Append(trace, Emitted(Signal("TaskChainEnd", NoId, cycle)))
    /\ IF recorders = {}
       THEN /\ pc' = "sleep"
            /\ recorders_ready' = recorders_ready
       ELSE /\ pc' = "fence"
            /\ recorders_ready' = [r \in DOMAIN recorders_ready |-> FALSE]
    /\ start_flush' = now
    /\ UNCHANGED <<cfg_vars, activity_states, cycle, intra_ready, conn_vars, up, peer_pc,
                   sec_ready, worker_trigger, running, rec_log, rogue, spurious, hellos,
                   peer_time, foreign,
                   now, task_chain_start, sleep_log, worker_log, ipc_pc, unit_vars>>

\* wait_recorders_ready: the ready flags after one received signal
RecorderFlags(flags, signal) ==
    IF signal.tag = "RecorderReady" /\ signal.id \in recorders
    THEN [flags EXCEPT ![signal.id] = TRUE]
    ELSE flags

\* RecordersDone that tests the flags as they were before the signal
RecordersDone_before(flags, signal) ==
    /\ signal.tag = "RecorderReady"
    /\ signal.id \in recorders
    /\ \A r \in DOMAIN recorders_ready : recorders_ready[r]

\* RecordersDone with any in place of all
RecordersDone_any(flags, signal) ==
    /\ signal.tag = "RecorderReady"
    /\ signal.id \in recorders
    /\ \E r \in DOMAIN flags : flags[r]

\* wait_recorders_ready: whether the loop returns after one received signal
RecordersDone(flags, signal) ==
    /\ signal.tag = "RecorderReady"
    /\ signal.id \in recorders
    /\ \A r \in DOMAIN flags : flags[r]

\* wait_recorders_ready, one receive of its loop
WaitRecordersReady ==
    /\ pc = "fence"
    /\ intra_ready # <<>>
    /\ LET signal == Head(intra_ready)
           flags == RecorderFlags(recorders_ready, signal)
       IN /\ trace' = Append(trace, Received(signal))
          /\ recorders_ready' = flags
          /\ pc' = IF RecordersDone(flags, signal) THEN "sleep" ELSE "fence"
    /\ intra_ready' = Tail(intra_ready)
    /\ UNCHANGED <<cfg_vars, activity_states, cycle, conn_vars, up, down, peer_pc,
                   sec_ready, worker_trigger, running, rec_log, rogue, spurious, hellos,
                   wire,
                   peer_time, foreign,
                   time_vars, worker_log, ipc_pc, unit_vars>>

\* A subtraction of durations that takes the distance of the two
saturating_sub_distance(a, b) == IF a > b THEN a - b ELSE b - a

\* Duration::saturating_sub
saturating_sub(a, b) == IF a > b THEN a - b ELSE 0

\* Scheduler::run, end of the loop body: sleep the rest of the cycle time
\* (thread::sleep returning when the time is over), or log the overrun, and
\* start over
CycleSleep ==
    /\ pc = "sleep"
    /\ pc' = "chain_start"
    /\ LET flush_duration == now - start_flush
           task_chain_duration == now - task_chain_start
           time_left == saturating_sub(cycle_time, task_chain_duration)
       IN /\ now' = IF time_left = 0 THEN now ELSE now + time_left
          /\ sleep_log' = Append(sleep_log,
                                 [start |-> task_chain_start,
                                  start_flush |-> start_flush,
                                  finish |-> now,
                                  flush_duration |-> flush_duration,
                                  overrun |-> time_left = 0,
                                  slept |-> time_left])
    /\ UNCHANGED <<cfg_vars, activity_states, recorders_ready, cycle, intra_ready,
                   conn_vars, up, down, peer_pc, sec_ready, worker_trigger, running,
                   rec_log, rogue, spurious, hellos, trace,
                   wire,
                   peer_time, foreign,
                   task_chain_start, start_flush, worker_log, ipc_pc, unit_vars>>

\* ------------------------------------------------------------------ primary: ready receiver thread

\* IpcSignalReceiver::thread_main: one received frame of a retained ready
\* stream, forwarded into the scheduler's ready channel. The results of recv
\* and of Signal::try_from are unwrapped: a frame that is no signal ends
\* the thread, for all the ready streams it reads.
IpcReceive(c) ==
    /\ pc \notin {"bind", "connect", "hello_recv"}
    /\ ipc_pc = "alive"
    /\ \E g \in DOMAIN streams_ready : streams_ready[g] = c
    /\ up[c] # <<>>
    /\ IF IsRaw(Head(up[c])) /\ FrameOutcome(Head(up[c]).bytes) # "signal"
       THEN /\ ipc_pc' = "panicked"
            /\ UNCHANGED intra_ready
       ELSE /\ intra_ready' = Append(intra_ready, Head(up[c]))
            /\ UNCHANGED ipc_pc
    /\ up' = [up EXCEPT ![c] = Tail(@)]
    /\ UNCHANGED <<cfg_vars, pc, activity_states, recorders_ready, cycle, conn_vars,
                   down, peer_pc, sec_ready, worker_trigger, running, rec_log, rogue,
                   spurious, hellos, trace,
                   wire,
                   peer_time, foreign,
                   time_vars, worker_log, unit_vars>>

\* ------------------------------------------------------------------ secondaries and recorders

\* connect_to_primary: dial the connection for incoming signals, retried
\* until the primary listens
PeerConnectIn(p) ==
    /\ peer_pc[p] = "connect_in"
    /\ listening
    /\ backlog' = Append(backlog, InConn(p))
    /\ listen_event' = TRUE
    /\ peer_pc' = [peer_pc EXCEPT ![p] = "hello_trigger"]
    /\ UNCHANGED <<cfg_vars, pc, activity_states, recorders_ready, cycle, intra_ready,
                   listening, accepted, streams_trigger, streams_ready, up, down,
                   sec_ready, worker_trigger, running, rec_log, rogue, spurious, hellos, trace,
                   wire,
                   peer_time, foreign,
                   time_vars, worker_log, ipc_pc, unit_vars>>

\* connect_to_primary: HelloTrigger on the first connection
PeerHelloTrigger(p) ==
    /\ peer_pc[p] = "hello_trigger"
    /\ up' = [up EXCEPT ![InConn(p)] = Append(@, Signal("HelloTrigger", p, 0))]
    /\ peer_pc' = [peer_pc EXCEPT ![p] = "connect_out"]
    /\ UNCHANGED <<cfg_vars, pc, activity_states, recorders_ready, cycle, intra_ready,
                   conn_vars, down, sec_ready, worker_trigger, running, rec_log, rogue,
                   spurious, hellos, trace,
                   wire,
                   peer_time, foreign,
                   time_vars, worker_log, ipc_pc, unit_vars>>

\* connect_to_primary: dial the connection for outgoing signals; a refused
\* connection panics
PeerConnectOut(p) ==
    /\ peer_pc[p] = "connect_out"
    /\ IF listening
       THEN /\ backlog' = Append(backlog, OutConn(p))
            /\ listen_event' = TRUE
            /\ peer_pc' = [peer_pc EXCEPT ![p] = "hello_ready"]
       ELSE /\ UNCHANGED <<backlog, listen_event>>
            /\ peer_pc' = [peer_pc EXCEPT ![p] = "panicked"]
    /\ UNCHANGED <<cfg_vars, pc, activity_states, recorders_ready, cycle, intra_ready,
                   listening, accepted, streams_trigger, streams_ready, up, down,
                   sec_ready, worker_trigger, running, rec_log, rogue, spurious, hellos, trace,
                   wire,
                   peer_time, foreign,
                   time_vars, worker_log, ipc_pc, unit_vars>>

\* connect_to_primary: HelloReady on the second connection. A recorder
\* (Recorder::connect_primary) goes on to send a second HelloTrigger on its
\* first connection.
PeerHelloReady(p) ==
    /\ peer_pc[p] = "hello_ready"
    /\ up' = [up EXCEPT ![OutConn(p)] = Append(@, Signal("HelloReady", p, 0))]
    /\ peer_pc' = [peer_pc EXCEPT ![p] = IF p \in recorders THEN "hello_recorder" ELSE "wait_sync"]
    /\ UNCHANGED <<cfg_vars, pc, activity_states, recorders_ready, cycle, intra_ready,
                   conn_vars, down, sec_ready, worker_trigger, running, rec_log, rogue,
                   spurious, hellos, trace,
                   wire,
                   peer_time, foreign,
                   time_vars, worker_log, ipc_pc, unit_vars>>

\* Recorder::connect_primary: HelloTrigger once more on the recorder stream
RecorderHello(r) ==
    /\ peer_pc[r] = "hello_recorder"
    /\ up' = [up EXCEPT ![InConn(r)] = Append(@, Signal("HelloTrigger", r, 0))]
    /\ peer_pc' = [peer_pc EXCEPT ![r] = "wait_sync"]
    /\ UNCHANGED <<cfg_vars, pc, activity_states, recorders_ready, cycle, intra_ready,
                   conn_vars, down, sec_ready, worker_trigger, running, rec_log, rogue,
                   spurious, hellos, trace,
                   wire,
                   peer_time, foreign,
                   time_vars, worker_log, ipc_pc, unit_vars>>

\* receive_sync that takes any first frame for the synchronisation
PeerReceiveSync_any_frame(p) ==
    /\ peer_pc[p] = "wait_sync"
    /\ down[InConn(p)] # <<>>
    /\ peer_pc' = [peer_pc EXCEPT ![p] = "running"]
    /\ peer_time' = [peer_time EXCEPT ![p] = initialize_from(Head(down[InConn(p)]).ts)]
    /\ down' = [down EXCEPT ![InConn(p)] = Tail(@)]
    /\ UNCHANGED <<cfg_vars, pc, activity_states, recorders_ready, cycle, intra_ready,
                   conn_vars, up, sec_ready, worker_trigger, running, rec_log, rogue,
                   spurious, hellos, trace, wire, foreign,
                   time_vars, worker_log, ipc_pc, unit_vars>>

\* IpcSignalReceiver::receive_sync / Recorder::sync_time: the first frame of
\* the trigger stream must be StartupSync, any other signal panics
PeerReceiveSync(p) ==
    /\ peer_pc[p] = "wait_sync"
    /\ down[InConn(p)] # <<>>
    /\ peer_pc' = [peer_pc EXCEPT ![p] =
                     IF Head(down[InConn(p)]).tag = "StartupSync" THEN "running" ELSE "panicked"]
    /\ peer_time' = [peer_time EXCEPT ![p] =
                       IF Head(down[InConn(p)]).tag = "StartupSync"
                       THEN initialize_from(Head(down[InConn(p)]).ts)
                       ELSE @]
    /\ down' = [down EXCEPT ![InConn(p)] = Tail(@)]
    /\ UNCHANGED <<cfg_vars, pc, activity_states, recorders_ready, cycle, intra_ready,
                   conn_vars, up, sec_ready, worker_trigger, running, rec_log, rogue,
                   spurious, hellos, trace,
                   wire, foreign,
                   time_vars, worker_log, ipc_pc, unit_vars>>

\* thread_main whose pool hands every trigger to one and the same worker
SecondaryRelay_one_worker(s) ==
    /\ s \in secondary_agents
    /\ peer_pc[s] = "running"
    /\ down[InConn(s)] # <<>>
    /\ LET signal == Head(down[InConn(s)])
           first == CHOOSE wk \in Workers :
                       /\ wk[1] = s
                       /\ \A a \in PoolActivities(s) : \E b \in WorkerActivities(wk) : b <= a
       IN
       IF HasActivityId(signal) /\ signal.id \in PoolActivities(s)
       THEN /\ worker_trigger' = [worker_trigger EXCEPT ![first] = Append(@, signal)]
            /\ peer_pc' = peer_pc
       ELSE /\ worker_trigger' = worker_trigger
            /\ peer_pc' = [peer_pc EXCEPT ![s] = "panicked"]
    /\ down' = [down EXCEPT ![InConn(s)] = Tail(@)]
    /\ UNCHANGED <<cfg_vars, pc, activity_states, recorders_ready, cycle, intra_ready,
                   conn_vars, up, sec_ready, running, rec_log, rogue, spurious, hellos, trace,
                   wire, peer_time, foreign,
                   time_vars, worker_log, ipc_pc, unit_vars>>

\* IpcSignalReceiver::thread_main of a secondary: one trigger signal from
\* the primary, forwarded by WorkerPoolTrigger::trigger to the queue of the
\* worker that owns the activity; a signal without an activity id, or for
\* an activity the pool does not own, panics
SecondaryRelay(s) ==
    /\ s \in secondary_agents
    /\ peer_pc[s] = "running"
    /\ down[InConn(s)] # <<>>
    /\ LET signal == Head(down[InConn(s)]) IN
       IF HasActivityId(signal) /\ signal.id \in PoolActivities(s)
       THEN /\ worker_trigger' = [worker_trigger EXCEPT ![activity_map[signal.id]] = Append(@, signal)]
            /\ peer_pc' = peer_pc
       ELSE /\ worker_trigger' = worker_trigger
            /\ peer_pc' = [peer_pc EXCEPT ![s] = "panicked"]
    /\ down' = [down EXCEPT ![InConn(s)] = Tail(@)]
    /\ UNCHANGED <<cfg_vars, pc, activity_states, recorders_ready, cycle, intra_ready,
                   conn_vars, up, sec_ready, running, rec_log, rogue, spurious, hellos, trace,
                   wire,
                   peer_time, foreign,
                   time_vars, worker_log, ipc_pc, unit_vars>>

\* Ready flags that are all set after one received Ready
ActivitiesReady_all(s, signal) == [a \in PoolActivities(s) \cup {signal.id} |-> TRUE]

\* WorkerPoolListener: the ready flags after clear_ready and one
\* wait_next_ready that received the given Ready
ActivitiesReady(s, signal) == [a \in PoolActivities(s) \cup {signal.id} |-> a = signal.id]

RECURSIVE SendReadyEach(_, _, _)
\* SecondaryAgent::run: send_ready for each activity flagged ready
SendReadyEach(stream, ids, ts) ==
    IF ids = <<>> THEN stream
    ELSE SendReadyEach(Append(stream, Signal("Ready", Head(ids), ts)), Tail(ids), ts)

\* SecondaryAgent::run, one turn of the loop: clear the flags, wait for the
\* next Ready of a local worker, send a Ready for every flagged activity
SecondaryForwardReady(s) ==
    /\ s \in secondary_agents
    /\ peer_pc[s] = "running"
    /\ sec_ready[s] # <<>>
    /\ LET signal == Head(sec_ready[s])
           flags == ActivitiesReady(s, signal)
           ready_ids == SeqOfSet({a \in DOMAIN flags : flags[a]})
       IN  up' = [up EXCEPT ![OutConn(s)] =
                    IF signal.tag = "Ready" THEN SendReadyEach(@, ready_ids, signal.ts) ELSE @]
    /\ sec_ready' = [sec_ready EXCEPT ![s] = Tail(@)]
    /\ UNCHANGED <<cfg_vars, pc, activity_states, recorders_ready, cycle, intra_ready,
                   conn_vars, down, peer_pc, worker_trigger, running, rec_log, rogue,
                   spurious, hellos, trace,
                   wire,
                   peer_time, foreign,
                   time_vars, worker_log, ipc_pc, unit_vars>>

\* Recorder::run, one turn of the loop: record the received signal; after
\* TaskChainEnd flush and send RecorderReady on the ready stream
RecorderReceive(r) ==
    /\ r \in recorders
    /\ peer_pc[r] = "running"
    /\ down[InConn(r)] # <<>>
    /\ LET signal == Head(down[InConn(r)]) IN
       /\ rec_log' = [rec_log EXCEPT ![r] = Append(@, signal)]
       /\ up' = IF signal.tag = "TaskChainEnd"
                THEN [up EXCEPT ![OutConn(r)] = Append(@, Signal("RecorderReady", r, signal.ts))]
                ELSE up
    /\ down' = [down EXCEPT ![InConn(r)] = Tail(@)]
    /\ UNCHANGED <<cfg_vars, pc, activity_states, recorders_ready, cycle, intra_ready,
                   conn_vars, peer_pc, sec_ready, worker_trigger, running, rogue,
                   spurious, hellos, trace,
                   wire,
                   peer_time, foreign,
                   time_vars, worker_log, ipc_pc, unit_vars>>

\* ------------------------------------------------------------------ workers

IsTrigger(signal) == signal.tag \in {"Startup", "Step", "Shutdown"}

\* A worker that calls step whatever the trigger
lifecycle_method_step(signal) == IF IsTrigger(signal) THEN "step" ELSE "none"

\* worker run, the match on the signal: the method of the activity it calls
lifecycle_method(signal) ==
    CASE signal.tag = "Startup" -> "startup"
      [] signal.tag = "Step" -> "step"
      [] signal.tag = "Shutdown" -> "shutdown"
      [] OTHER -> "none"

\* The entries of a worker's log
Taken(signal) == [ev |-> "recv", sig |-> signal, method |-> "none"]
Called(signal) == [ev |-> "call", sig |-> signal, method |-> lifecycle_method(signal)]
Sent(signal) == [ev |-> "send", sig |-> signal, method |-> "none"]

\* A worker that takes the newest trigger of its channel instead of the oldest
WorkerReceive_newest(wk) ==
    /\ running[wk] = NoSignal
    /\ worker_trigger[wk] # <<>>
    /\ LET signal == worker_trigger[wk][Len(worker_trigger[wk])] IN
       running' = [running EXCEPT ![wk] =
                     IF IsTrigger(signal) /\ signal.id \in WorkerActivities(wk)
                     THEN signal
                     ELSE Signal("Panicked", NoId, 0)]
    /\ worker_log' = [worker_log EXCEPT ![wk] =
                        LET signal == worker_trigger[wk][Len(worker_trigger[wk])] IN
                        IF IsTrigger(signal) /\ signal.id \in WorkerActivities(wk)
                        THEN @ \o <<Taken(signal), Called(signal)>>
                        ELSE Append(@, Taken(signal))]
    /\ worker_trigger' = [worker_trigger EXCEPT ![wk] = SubSeq(@, 1, Len(@) - 1)]
    /\ UNCHANGED <<cfg_vars, pc, activity_states, recorders_ready, cycle, intra_ready,
                   conn_vars, up, down, peer_pc, sec_ready, rec_log, rogue, spurious, hellos, trace,
                   wire,
                   peer_time, foreign,
                   time_vars, ipc_pc, unit_vars>>

\* worker run, first half of a loop turn: receive the next trigger and
\* invoke the matching method of the activity; a signal that is no trigger,
\* or for an activity the worker does not own, panics
WorkerReceive(wk) ==
    /\ running[wk] = NoSignal
    /\ worker_trigger[wk] # <<>>
    /\ LET signal == Head(worker_trigger[wk]) IN
       running' = [running EXCEPT ![wk] =
                     IF IsTrigger(signal) /\ signal.id \in WorkerActivities(wk)
                     THEN signal
                     ELSE Signal("Panicked", NoId, 0)]
    /\ worker_log' = [worker_log EXCEPT ![wk] =
                        LET signal == Head(worker_trigger[wk]) IN
                        IF IsTrigger(signal) /\ signal.id \in WorkerActivities(wk)
                        THEN @ \o <<Taken(signal), Called(signal)>>
                        ELSE Append(@, Taken(signal))]
    /\ worker_trigger' = [worker_trigger EXCEPT ![wk] = Tail(@)]
    /\ UNCHANGED <<cfg_vars, pc, activity_states, recorders_ready, cycle, intra_ready,
                   conn_vars, up, down, peer_pc, sec_ready, rec_log, rogue, spurious, hellos, trace,
                   wire,
                   peer_time, foreign,
                   time_vars, ipc_pc, unit_vars>>

\* worker run, second half of a loop turn: the method has returned, send
\* Ready with the activity id on the ready channel of the worker's agent
WorkerSendReady(wk) ==
    /\ IsTrigger(running[wk])
    /\ LET signal == Signal("Ready", running[wk].id, running[wk].ts) IN
       IF wk[1] = local_agent_id
       THEN /\ intra_ready' = Append(intra_ready, signal)
            /\ sec_ready' = sec_ready
       ELSE /\ sec_ready' = [sec_ready EXCEPT ![wk[1]] = Append(@, signal)]
            /\ intra_ready' = intra_ready
    /\ worker_log' = [worker_log EXCEPT ![wk] =
                        Append(@, Sent(Signal("Ready", running[wk].id, running[wk].ts)))]
    /\ running' = [running EXCEPT ![wk] = NoSignal]
    /\ UNCHANGED <<cfg_vars, pc, activity_states, recorders_ready, cycle, conn_vars, up,
                   down, peer_pc, worker_trigger, rec_log, rogue, spurious, hellos, trace,
                   wire,
                   peer_time, foreign,
                   time_vars, ipc_pc, unit_vars>>

\* ------------------------------------------------------------------ environment

\* The first frames a connection that no expected peer's code opens may carry
RogueFrames ==
    {Signal("HelloTrigger", id, 0) : id \in Peers \cup {UnexpectedId}}
        \cup {Signal("HelloReady", id, 0) : id \in Peers \cup {UnexpectedId}}
        \cup {Signal("RecorderReady", UnexpectedId, 0)}

\* A process other than the expected peers' code connects to the listener
\* and sends one frame
RogueConnect(frame) ==
    /\ listening
    /\ pc \in {"connect", "hello_recv"}
    /\ rogue < MaxRogue
    /\ rogue' = rogue + 1
    /\ backlog' = Append(backlog, RogueConn(rogue + 1))
    /\ listen_event' = TRUE
    /\ up' = [up EXCEPT ![RogueConn(rogue + 1)] = <<frame>>]
    /\ UNCHANGED <<cfg_vars, pc, activity_states, recorders_ready, cycle, intra_ready,
                   listening, accepted, streams_trigger, streams_ready, down, peer_pc,
                   sec_ready, worker_trigger, running, rec_log, spurious, hellos, trace,
                   wire,
                   peer_time, foreign,
                   time_vars, worker_log, ipc_pc, unit_vars>>

\* A connected recorder sends a RecorderReady its code does not send: a
\* repeated one, or one carrying an id that is no registered recorder
SpuriousRecorderReady(p, id) ==
    /\ p \in recorders
    /\ peer_pc[p] = "running"
    /\ cycle > 0
    /\ spurious < MaxSpurious
    /\ spurious' = spurious + 1
    /\ up' = [up EXCEPT ![OutConn(p)] = Append(@, Signal("RecorderReady", id, cycle))]
    /\ UNCHANGED <<cfg_vars, pc, activity_states, recorders_ready, cycle, intra_ready,
                   conn_vars, down, peer_pc, sec_ready, worker_trigger, running, rec_log,
                   rogue, hellos, trace,
                   wire,
                   peer_time, foreign,
                   time_vars, worker_log, ipc_pc, unit_vars>>

\* A connected peer writes a malformed frame to its ready stream during a
\* cycle, one such frame at a time
GarbledReady(p, bytes) ==
    /\ peer_pc[p] = "running"
    /\ cycle > 0
    /\ ipc_pc = "alive"
    /\ \A c \in ConnIds : \A i \in 1..Len(up[c]) : ~IsRaw(up[c][i])
    /\ up' = [up EXCEPT ![streams_ready[p]] = Append(@, RawFrame(bytes))]
    /\ UNCHANGED <<cfg_vars, pc, activity_states, recorders_ready, cycle, intra_ready,
                   conn_vars, down, peer_pc, sec_ready, worker_trigger, running, rec_log,
                   rogue, spurious, hellos, trace,
                   wire,
                   peer_time, foreign,
                   time_vars, worker_log, ipc_pc, unit_vars>>

\* The frames that reach a trigger stream from elsewhere than the primary's code
ForeignFrames ==
    {Signal("Startup", a, 0) : a \in DOMAIN activity_depends}
        \cup {Signal("TaskChainStart", NoId, 1)}

\* A frame reaches a peer's trigger stream before the primary has written
\* anything to it, from elsewhere than the primary's code (the stream is
\* tampered with, or the peer's dial ended at another program)
ForeignFrame(p, frame) ==
    /\ peer_pc[p] \in {"hello_trigger", "connect_out", "hello_ready", "hello_recorder", "wait_sync"}
    /\ wire[InConn(p)] = <<>>
    /\ down[InConn(p)] = <<>>
    /\ foreign < MaxForeign
    /\ foreign' = foreign + 1
    /\ down' = [down EXCEPT ![InConn(p)] = <<frame>>]
    /\ UNCHANGED <<cfg_vars, pc, activity_states, recorders_ready, cycle, intra_ready,
                   conn_vars, up, peer_pc, sec_ready, worker_trigger, running, rec_log,
                   rogue, spurious, hellos, trace, wire, peer_time,
                   time_vars, worker_log, ipc_pc, unit_vars>>

\* The signals WorkerPoolTrigger::trigger hands to a worker: any signal that
\* carries the id of one of the worker's activities
Triggerable(wk) ==
    {Signal(tag, a, 0) : tag \in {"Startup", "Step", "Shutdown", "Ready"},
                         a \in WorkerActivities(wk)}

\* The signals a worker has taken from its trigger queue so far
TakenBy(wk) == Cardinality({i \in 1..Len(worker_log[wk]) : worker_log[wk][i].ev = "recv"})

RECURSIVE Fed(_)
\* The signals put into the trigger queues of the given workers so far
Fed(wks) ==
    IF wks = {} THEN 0
    ELSE LET wk == CHOOSE x \in wks : TRUE
         IN  Len(worker_trigger[wk]) + TakenBy(wk) + Fed(wks \ {wk})

\* WorkerPoolTrigger::trigger called on its own: one signal into the
\* trigger queue of the worker that owns the activity
Feed(wk, signal) ==
    /\ Fed(Workers) < MaxFeed
    /\ worker_trigger' = [worker_trigger EXCEPT ![wk] = Append(@, signal)]
    /\ UNCHANGED <<cfg_vars, pc, activity_states, recorders_ready, cycle, intra_ready,
                   conn_vars, up, down, peer_pc, sec_ready, running, rec_log, rogue,
                   spurious, hellos, trace, wire, peer_time, foreign, time_vars, worker_log, ipc_pc, unit_vars>>

\* A tick of the clock while the scheduler is blocked in a cycle: in
\* wait_next_ready or in wait_recorders_ready. The steps of the scheduler
\* between two blocking calls take no time.
Tick ==
    /\ pc \in {"wait_ready", "fence"}
    /\ now - task_chain_start < MaxElapsed
    /\ now' = now + 1
    /\ UNCHANGED <<cfg_vars, pc, activity_states, recorders_ready, cycle, intra_ready,
                   conn_vars, up, down, peer_pc, sec_ready, worker_trigger, running,
                   rec_log, rogue, spurious, hellos, trace, wire, peer_time, foreign,
                   task_chain_start, start_flush, sleep_log, worker_log, ipc_pc, unit_vars>>

\* ------------------------------------------------------------------ one stream, its writer and its reader

\* No signal: the writer of the stream is not one that encodes a signal
Unsent == Signal("None", 0, 0)

\* OnceLock::new: the cell is empty
Unset == [set |-> FALSE, systime |-> 0, instant |-> 0]

\* The bytes of the writer's frame that are not written yet
Unwritten == SubSeq(tx_frame, tx_sent + 1, Len(tx_frame))

\* The writer converts its signal into a PDU (impl From<&Signal> for
\* SignalPdu) and lays out the frame SignalPdu::send will write
Encode ==
    /\ tx_signal # Unsent
    /\ tx_frame = <<>>
    /\ ~closed
    /\ tx_frame' = Frame(SignalPdu_from(tx_signal))
    /\ UNCHANGED <<sys_vars, tx_signal, tx_sent, tcp_stream, closed, reader_vars,
                   base_vars, build_vars, record_vars>>

\* SignalPdu::send: one write_all, of the header first and of the data next
PduSend ==
    /\ ~closed
    /\ tx_sent < Len(tx_frame)
    /\ LET upto == IF tx_sent < BUF_SIZE THEN BUF_SIZE ELSE Len(tx_frame) IN
       /\ tcp_stream' = tcp_stream \o SubSeq(tx_frame, tx_sent + 1, upto)
       /\ tx_sent' = upto
    /\ UNCHANGED <<sys_vars, tx_signal, tx_frame, closed, reader_vars, base_vars, build_vars, record_vars>>

\* The writing peer ends, with k more bytes of its frame on the way: the
\* connection is closed behind them
PeerClose(k) ==
    /\ ~closed
    /\ k <= Len(Unwritten)
    /\ tcp_stream' = tcp_stream \o SubSeq(Unwritten, 1, k)
    /\ tx_sent' = tx_sent + k
    /\ closed' = TRUE
    /\ UNCHANGED <<sys_vars, tx_signal, tx_frame, reader_vars, base_vars, build_vars, record_vars>>

\* is_readable: peek returns at least one byte (it returns 0 on a closed
\* stream with nothing left, and WouldBlock on an open one)
is_readable == tcp_stream # <<>>

\* MioSocketReceiver::recv, MioMultiSocketReceiver::recv: one pass of the
\* loop. A readable stream is read; otherwise the receiver polls without
\* timeout. The poll returns when bytes arrive; on a closed stream it
\* returns for the close, the stream is still not readable, and the next
\* poll has nothing left to return for.
Recv ==
    /\ rd_pc = "recv"
    /\ IF is_readable
       THEN rd_pc' = "header"
       ELSE /\ closed
            /\ rd_pc' = "blocked"
    /\ buffer' = <<>>
    /\ UNCHANGED <<sys_vars, writer_vars, tcp_stream, closed, waiting, header, rx_pdu,
                   rx_signal, base_vars, build_vars, record_vars>>

\* The length of the buffer the reader is filling
BufferLen == IF rd_pc = "header" THEN BUF_SIZE ELSE HeaderDataLen(header)

\* read_buffer: one pass of the loop while total_read < len. stream.read
\* returns the bytes there are, up to the end of the buffer; WouldBlock on
\* an open stream without bytes, answered by wait_readable; and Ok(0) on a
\* closed stream without bytes, after which the pass repeats unchanged.
\* wait_readable on a stream closed meanwhile polls like recv does.
ReadBuffer ==
    /\ rd_pc \in {"header", "data"}
    /\ Len(buffer) < BufferLen
    /\ IF tcp_stream # <<>>
       THEN LET num_read == IF Len(tcp_stream) < BufferLen - Len(buffer)
                            THEN Len(tcp_stream) ELSE BufferLen - Len(buffer) IN
            /\ buffer' = buffer \o SubSeq(tcp_stream, 1, num_read)
            /\ tcp_stream' = SubSeq(tcp_stream, num_read + 1, Len(tcp_stream))
            /\ waiting' = FALSE
            /\ UNCHANGED rd_pc
       ELSE /\ UNCHANGED <<buffer, tcp_stream>>
            /\ IF ~closed
               THEN /\ ~waiting
                    /\ waiting' = TRUE
                    /\ UNCHANGED rd_pc
               ELSE /\ rd_pc' = IF waiting THEN "blocked" ELSE "spinning"
                    /\ UNCHANGED waiting
    /\ UNCHANGED <<sys_vars, writer_vars, closed, header, rx_pdu, rx_signal,
                   base_vars, build_vars, record_vars>>

\* SignalPdu::read after the header is read: the check of the declared length
ReadHeaderDone ==
    /\ rd_pc = "header"
    /\ Len(buffer) = BUF_SIZE
    /\ IF HeaderDataLen(buffer) > MAX_PDU_DATA_SIZE
       THEN /\ rd_pc' = "error"
            /\ UNCHANGED <<header, buffer>>
       ELSE /\ rd_pc' = "data"
            /\ header' = buffer
            /\ buffer' = <<>>
    /\ UNCHANGED <<sys_vars, writer_vars, tcp_stream, closed, waiting, rx_pdu, rx_signal,
                   base_vars, build_vars, record_vars>>

\* SignalPdu::read after the data is read: the conversion of the tag byte
ReadDataDone ==
    /\ rd_pc = "data"
    /\ Len(buffer) = HeaderDataLen(header)
    /\ IF ReadPdu(header, buffer).tag = "InvalidData"
       THEN /\ rd_pc' = "error"
            /\ UNCHANGED rx_pdu
       ELSE /\ rd_pc' = "pdu"
            /\ rx_pdu' = ReadPdu(header, buffer)
    /\ UNCHANGED <<sys_vars, writer_vars, tcp_stream, closed, waiting, buffer, header,
                   rx_signal, base_vars, build_vars, record_vars>>

\* Signal::try_from on the received PDU, as the callers of recv apply it
Decode ==
    /\ rd_pc = "pdu"
    /\ IF DecodeAsserts(rx_pdu, Len(Fields(rx_pdu.tag)))
       THEN /\ rd_pc' = "signal"
            /\ rx_signal' = Signal_try_from(rx_pdu)
       ELSE /\ rd_pc' = "panicked"
            /\ UNCHANGED rx_signal
    /\ UNCHANGED <<sys_vars, writer_vars, tcp_stream, closed, waiting, buffer, header,
                   rx_pdu, base_vars, build_vars, record_vars>>

\* thread_main of the receiver threads: back to recv for the next frame
RecvAgain ==
    /\ rd_pc = "signal"
    /\ rd_pc' = "recv"
    /\ UNCHANGED <<sys_vars, writer_vars, tcp_stream, closed, waiting, buffer, header,
                   rx_pdu, rx_signal, base_vars, build_vars, record_vars>>

\* ------------------------------------------------------------------ the time base of one process

\* The threads of the process that call into timestamp.rs
Threads == {"main", "other"}

\* A thread that is in no call
NoCall == [pc |-> "idle", op |-> "none", arg |-> 0, info |-> Unset]

\* time_info_now: the system time and the instant of the call, read within
\* MAX_DELAY of each other (the retries until they are, are not followed)
time_info_now == [set |-> TRUE, systime |-> clock.systime, instant |-> clock.instant]

\* An entry of the log of finished calls
Finished(t, op, arg, result, value) ==
    [thread |-> t, op |-> op, arg |-> arg, result |-> result, value |-> value]

\* The calls begun so far
Calls == Len(base_log) + Cardinality({t \in Threads : callers[t].pc = "set"})

\* timestamp::initialize up to the call of OnceLock::set
InitializeBegin(t) ==
    /\ callers[t].pc = "idle"
    /\ Calls < MaxCalls
    /\ callers' = [callers EXCEPT ![t] =
                      [pc |-> "set", op |-> "initialize", arg |-> 0, info |-> time_info_now]]
    /\ UNCHANGED <<sys_vars, stream_vars, STARTUP_TIME, clock, FACTOR, base_log, build_vars, record_vars>>

\* timestamp::initialize_from up to the call of OnceLock::set: the startup
\* system time is the epoch plus the sync info, the startup instant is the
\* local instant minus the time elapsed since; duration_since fails on a
\* startup time later than the local system time and checked_sub on an
\* instant before the origin of the local monotonic clock, and both results
\* are expected
InitializeFromBegin(t, sync) ==
    /\ callers[t].pc = "idle"
    /\ Calls < MaxCalls
    /\ LET now_info == time_info_now
           startup == initialize_from(sync)
           elapsed_since_startup == now_info.systime - startup
       IN  IF startup > now_info.systime \/ elapsed_since_startup > now_info.instant
           THEN /\ callers' = [callers EXCEPT ![t] = [NoCall EXCEPT !.pc = "panicked"]]
                /\ base_log' = Append(base_log,
                                      Finished(t, "initialize_from", sync, "panic_sync", 0))
           ELSE /\ callers' = [callers EXCEPT ![t] =
                                  [pc |-> "set", op |-> "initialize_from", arg |-> sync,
                                   info |-> [set |-> TRUE, systime |-> startup,
                                             instant |-> now_info.instant - elapsed_since_startup]]]
                /\ UNCHANGED base_log
    /\ UNCHANGED <<sys_vars, stream_vars, STARTUP_TIME, clock, FACTOR, build_vars, record_vars>>

\* A variant of OnceSet that stores the value whether or not one is stored.
OnceSet_overwrite(t) ==
    /\ callers[t].pc = "set"
    /\ STARTUP_TIME' = callers[t].info
    /\ callers' = [callers EXCEPT ![t] = NoCall]
    /\ base_log' = Append(base_log, Finished(t, callers[t].op, callers[t].arg, "ok", 0))
    /\ UNCHANGED <<sys_vars, stream_vars, clock, FACTOR, build_vars, record_vars>>

\* STARTUP_TIME.set(..).expect(..), the end of initialize and of
\* initialize_from: OnceLock::set stores the value in an empty cell, and
\* returns an error, which panics, on a cell that holds one
OnceSet(t) ==
    /\ callers[t].pc = "set"
    /\ IF ~STARTUP_TIME.set
       THEN /\ STARTUP_TIME' = callers[t].info
            /\ callers' = [callers EXCEPT ![t] = NoCall]
            /\ base_log' = Append(base_log, Finished(t, callers[t].op, callers[t].arg, "ok", 0))
       ELSE /\ UNCHANGED STARTUP_TIME
            /\ callers' = [callers EXCEPT ![t] = [NoCall EXCEPT !.pc = "panicked"]]
            /\ base_log' = Append(base_log,
                                  Finished(t, callers[t].op, callers[t].arg, "panic_set", 0))
    /\ UNCHANGED <<sys_vars, stream_vars, clock, FACTOR, build_vars, record_vars>>

\* timestamp::sync_info: the stored startup system time as a duration since
\* the epoch; it panics on an empty cell
SyncInfoCall(t) ==
    /\ callers[t].pc = "idle"
    /\ Calls < MaxCalls
    /\ IF STARTUP_TIME.set
       THEN /\ base_log' = Append(base_log,
                                  Finished(t, "sync_info", 0, "ok", STARTUP_TIME.systime - 0))
            /\ UNCHANGED callers
       ELSE /\ base_log' = Append(base_log, Finished(t, "sync_info", 0, "panic_get", 0))
            /\ callers' = [callers EXCEPT ![t] = [NoCall EXCEPT !.pc = "panicked"]]
    /\ UNCHANGED <<sys_vars, stream_vars, STARTUP_TIME, clock, FACTOR, build_vars, record_vars>>

\* impl Scaled for Duration: the duration divided by a positive factor,
\* multiplied by the absolute value of a negative one
scaled(duration) ==
    IF FACTOR # 0
    THEN IF FACTOR > 0 THEN duration \div FACTOR ELSE duration * (0 - FACTOR)
    ELSE duration

\* timestamp::timestamp: the real duration since the startup instant,
\* scaled; startup_instant panics on an empty cell. The entry keeps the real
\* duration with the result.
TimestampCall(t) ==
    /\ callers[t].pc = "idle"
    /\ Calls < MaxCalls
    /\ IF STARTUP_TIME.set
       THEN LET real_duration == clock.instant - STARTUP_TIME.instant IN
            /\ base_log' = Append(base_log,
                                  Finished(t, "timestamp", real_duration, "ok",
                                           scaled(real_duration)))
            /\ UNCHANGED callers
       ELSE /\ base_log' = Append(base_log, Finished(t, "timestamp", 0, "panic_get", 0))
            /\ callers' = [callers EXCEPT ![t] = [NoCall EXCEPT !.pc = "panicked"]]
    /\ UNCHANGED <<sys_vars, stream_vars, STARTUP_TIME, clock, FACTOR, build_vars, record_vars>>

\* Time passes on both clocks of the host
ClockAdvance ==
    /\ clock.instant < MaxClock
    /\ clock' = [systime |-> clock.systime + 1, instant |-> clock.instant + 1]
    /\ UNCHANGED <<sys_vars, stream_vars, STARTUP_TIME, FACTOR, callers, base_log, build_vars, record_vars>>

\* ------------------------------------------------------------------ construction from an assignment list

\* The activity ids of the groups of the given workers, one group after the
\* other, in an order of iteration of the map
RECURSIVE GroupEntries(_, _)
GroupEntries(workers, keys) ==
    IF keys = {} THEN <<>>
    ELSE LET w == CHOOSE k \in keys : TRUE
         IN  workers[w] \o GroupEntries(workers, keys \ {w})

\* The activity ids of the worker maps of the given agents, likewise
RECURSIVE MapEntries(_, _)
MapEntries(map, agents) ==
    IF agents = {} THEN <<>>
    ELSE LET g == CHOOSE k \in agents : TRUE
         IN  GroupEntries(map[g], DOMAIN map[g]) \o MapEntries(map, agents \ {g})

\* A variant of InsertEach without the assertion on the previous entry.
InsertEach_unchecked(entries, seen) == TRUE

\* The loops of ActivityConnector::new and WorkerPool::new: each activity id
\* is inserted as a key of a map, with the assertion that the key had no
\* entry before; FALSE where the assertion fails
RECURSIVE InsertEach(_, _)
InsertEach(entries, seen) ==
    IF entries = <<>> THEN TRUE
    ELSE IF Head(entries) \in seen THEN FALSE
         ELSE InsertEach(Tail(entries), seen \cup {Head(entries)})

\* ------------------------------------------------------------------ the dependency map builder

dep_vars == <<dep_map, last_add, adds, declared>>

\* No call of the dependency builder yet
NoAdd == [op |-> "none", activity_id |-> 0, dependencies |-> <<>>, before |-> <<>>,
          result |-> "none"]

\* The list of an activity in a dependency map, empty without an entry
ListOf(map, a) == IF a \in DOMAIN map THEN map[a] ELSE <<>>

\* add_dependency after its assertion: an existing entry is modified, the
\* activity id pushed where the list does not contain the dependency; without
\* an entry one is inserted, the list of the activity id alone
add_dependency(map, activity_id, dependency) ==
    IF activity_id \in DOMAIN map
    THEN [map EXCEPT ![activity_id] =
             IF dependency \in Range(@) THEN @ ELSE Append(@, activity_id)]
    ELSE map @@ (activity_id :> <<activity_id>>)

\* add_dependencies: add_dependency for each dependency of the list in turn;
\* ok is FALSE where the assertion of one of the calls fails
RECURSIVE add_dependencies(_, _, _)
add_dependencies(map, activity_id, dependencies) ==
    IF dependencies = <<>> THEN [map |-> map, ok |-> TRUE]
    ELSE IF activity_id = Head(dependencies) THEN [map |-> map, ok |-> FALSE]
         ELSE add_dependencies(add_dependency(map, activity_id, Head(dependencies)),
                               activity_id, Tail(dependencies))

\* A call of add_dependency on the map under construction, before the agent
\* is built: the assertion that the two ids differ, then the entry
AddDependency(activity_id, dependency) ==
    /\ primary_new = "config"
    /\ adds < MaxAdds
    /\ adds' = adds + 1
    /\ IF activity_id = dependency
       THEN /\ primary_new' = "panicked"
            /\ dep_map' = dep_map
       ELSE /\ primary_new' = primary_new
            /\ dep_map' = add_dependency(dep_map, activity_id, dependency)
    /\ last_add' = [op |-> "add_dependency", activity_id |-> activity_id,
                    dependencies |-> <<dependency>>, before |-> dep_map,
                    result |-> IF activity_id = dependency THEN "panic" ELSE "ok"]
    /\ UNCHANGED <<sys_vars, stream_vars, base_vars, record_vars, assignment, pool_new, declared>>

\* A call of add_dependencies on the map under construction
AddDependencies(activity_id, dependencies) ==
    /\ primary_new = "config"
    /\ adds < MaxAdds
    /\ adds' = adds + 1
    /\ LET r == add_dependencies(dep_map, activity_id, dependencies)
       IN  /\ dep_map' = r.map
           /\ primary_new' = IF r.ok THEN primary_new ELSE "panicked"
           /\ last_add' = [op |-> "add_dependencies", activity_id |-> activity_id,
                           dependencies |-> dependencies, before |-> dep_map,
                           result |-> IF r.ok THEN "ok" ELSE "panic"]
    /\ declared' = declared \cup {activity_id}
    /\ UNCHANGED <<sys_vars, stream_vars, base_vars, record_vars, assignment, pool_new>>

\* Scheduler::new: the activities with a state, which are the activities the
\* scheduler starts and steps, are the keys of the dependency map
ScheduledActivities == DOMAIN dep_map

\* The activities assigned to a worker in the agent map
AssignedActivities == Range(MapEntries(assignment, DOMAIN assignment))

\* The activities named in the dependency map, as key or as dependency
NamedActivities == DOMAIN dep_map \cup UNION {Range(dep_map[a]) : a \in DOMAIN dep_map}

\* PrimaryAgent::new: ActivityConnector::new over the whole agent map
ActivityConnectorNew ==
    /\ primary_new = "config"
    /\ primary_new' = IF InsertEach(MapEntries(assignment, DOMAIN assignment), {})
                      THEN "built" ELSE "panicked"
    /\ UNCHANGED <<sys_vars, stream_vars, base_vars, record_vars, assignment, pool_new, dep_vars>>

\* PrimaryAgent::run of the constructed agent: the scheduler's run loop starts
PrimaryRun ==
    /\ primary_new = "built"
    /\ primary_new' = "running"
    /\ UNCHANGED <<sys_vars, stream_vars, base_vars, record_vars, assignment, pool_new, dep_vars>>

\* WorkerPool::new of the given agent, from the worker map of that agent
WorkerPoolNew(g) ==
    /\ pool_new[g] = "config"
    /\ pool_new' = [pool_new EXCEPT ![g] =
                       IF InsertEach(GroupEntries(assignment[g], DOMAIN assignment[g]), {})
                       THEN "built" ELSE "panicked"]
    /\ UNCHANGED <<sys_vars, stream_vars, base_vars, record_vars, assignment, primary_new, dep_vars>>

\* ------------------------------------------------------------------ log records

\* log::Level and its discriminants
Levels == {"Error", "Warn", "Info", "Debug", "Trace"}
Level_as_u8(level) ==
    CASE level = "Error" -> 1
      [] level = "Warn" -> 2
      [] level = "Info" -> 3
      [] level = "Debug" -> 4
      [] level = "Trace" -> 5

\* OwnedRecord::decode: the level of a byte
Level_from_u8(byte) ==
    CASE byte = 1 -> "Error"
      [] byte = 2 -> "Warn"
      [] byte = 3 -> "Info"
      [] byte = 4 -> "Debug"
      [] byte = 5 -> "Trace"
      [] OTHER -> "invalid"

\* Option<&str> and Option<u32>
NoneStr == [some |-> FALSE, value |-> <<>>]
SomeStr(s) == [some |-> TRUE, value |-> s]
NoneLine == [some |-> FALSE, value |-> 0]
SomeLine(n) == [some |-> TRUE, value |-> n]

\* No record: the fields of a record, all empty
NoRecord ==
    [timestamp |-> [secs |-> 0, nanos |-> 0], level |-> "none", target |-> <<>>,
     file |-> NoneStr, line |-> NoneLine, tgid |-> 0, tid |-> 0, args |-> <<>>]

\* Record::encode: seconds and nanoseconds since the epoch, the level, the
\* target with its length, the file with its length or the length 0, the
\* line or 0, tgid, tid, the args with their length; all numbers big-endian
Record_encode(r) ==
    Flatten(<<to_be_bytes(r.timestamp.secs, 8),
              to_be_bytes(r.timestamp.nanos, 4),
              <<Level_as_u8(r.level)>>,
              to_be_bytes(Len(r.target), 4),
              r.target,
              IF r.file.some
              THEN to_be_bytes(Len(r.file.value), 4) \o r.file.value
              ELSE to_be_bytes(0, 4),
              IF r.line.some THEN to_be_bytes(r.line.value, 4) ELSE to_be_bytes(0, 4),
              to_be_bytes(r.tgid, 4),
              to_be_bytes(r.tid, 4),
              to_be_bytes(Len(r.args), 4),
              r.args>>)

\* String::from_utf8 succeeds on the bytes: the bytes below 0x80 are
\* characters of one byte; the other bytes of the samples are 0xFF, which
\* no encoding of a character contains
from_utf8_ok(bytes) == \A i \in DOMAIN bytes : bytes[i] < 128

\* The results of OwnedRecord::decode
DecodeErr(kind) == [ok |-> FALSE, error |-> kind, value |-> NoRecord]
DecodeOk(r) == [ok |-> TRUE, error |-> "none", value |-> r]

\* OwnedRecord::decode: the fields read one after the other from a cursor
\* over the bytes; a read past the end is UnexpectedEof, a level byte outside
\* 1..5 or a string that is not UTF-8 is InvalidData; a file length of 0
\* gives no file and a line of 0 gives no line
OwnedRecord_decode(r) ==
    LET Short(pos, n) == pos + n - 1 > Len(r)
        U(pos, n) == from_be_bytes(SubSeq(r, pos, pos + n - 1))
        target_len == U(14, 4)
        target == SubSeq(r, 18, 17 + target_len)
        file_len_at == 18 + target_len
        file_len == U(file_len_at, 4)
        file_at == file_len_at + 4
        file == SubSeq(r, file_at, file_at + file_len - 1)
        line_at == file_at + file_len
        tgid_at == line_at + 4
        tid_at == tgid_at + 4
        args_len_at == tid_at + 4
        args_len == U(args_len_at, 4)
        args_at == args_len_at + 4
        args == SubSeq(r, args_at, args_at + args_len - 1)
    IN  IF Short(1, 8) \/ Short(9, 4) \/ Short(13, 1) THEN DecodeErr("UnexpectedEof")
        ELSE IF Level_from_u8(r[13]) = "invalid" THEN DecodeErr("InvalidData")
        ELSE IF Short(14, 4) THEN DecodeErr("UnexpectedEof")
        ELSE IF Short(18, target_len) THEN DecodeErr("UnexpectedEof")
        ELSE IF ~from_utf8_ok(target) THEN DecodeErr("InvalidData")
        ELSE IF Short(file_len_at, 4) THEN DecodeErr("UnexpectedEof")
        ELSE IF file_len > 0 /\ Short(file_at, file_len) THEN DecodeErr("UnexpectedEof")
        ELSE IF file_len > 0 /\ ~from_utf8_ok(file) THEN DecodeErr("InvalidData")
        ELSE IF Short(line_at, 4) \/ Short(tgid_at, 4) \/ Short(tid_at, 4)
                  \/ Short(args_len_at, 4)
             THEN DecodeErr("UnexpectedEof")
        ELSE IF Short(args_at, args_len) THEN DecodeErr("UnexpectedEof")
        ELSE IF ~from_utf8_ok(args) THEN DecodeErr("InvalidData")
        ELSE DecodeOk([timestamp |-> [secs |-> U(1, 8), nanos |-> U(9, 4)],
                       level |-> Level_from_u8(r[13]),
                       target |-> target,
                       file |-> IF file_len > 0 THEN SomeStr(file) ELSE NoneStr,
                       line |-> IF U(line_at, 4) = 0 THEN NoneLine ELSE SomeLine(U(line_at, 4)),
                       tgid |-> U(tgid_at, 4),
                       tid |-> U(tid_at, 4),
                       args |-> args])

\* record.encode(&mut buf)
RecordEncode ==
    /\ record_pc = "new"
    /\ buf' = Record_encode(record)
    /\ record_pc' = "encoded"
    /\ UNCHANGED <<sys_vars, stream_vars, base_vars, build_vars, record, decoded>>

\* OwnedRecord::decode(&buf[..])
RecordDecode ==
    /\ record_pc = "encoded"
    /\ decoded' = OwnedRecord_decode(buf)
    /\ record_pc' = "decoded"
    /\ UNCHANGED <<sys_vars, stream_vars, base_vars, build_vars, record, buf>>

\* ------------------------------------------------------------------ specifications

\* A configuration of the given set, with an iteration order of the
\* dependency map
Configured(configs) ==
    /\ \E c \in configs :
          /\ agent_map = c.agent_map
          /\ activity_depends = c.activity_depends
          /\ recorders = c.recorders
          /\ cycle_time = c.cycle_time
    /\ depends_order \in Orders(DOMAIN activity_depends)

\* Scheduler::new and ActivityConnector::new: everything but the configuration
Constructed ==
    /\ activity_states = [a \in DOMAIN activity_depends |-> [triggered |-> FALSE, ready |-> FALSE]]
    /\ recorders_ready = [r \in recorders |-> FALSE]
    /\ cycle = 0
    /\ intra_ready = <<>>
    /\ backlog = <<>>
    /\ listen_event = FALSE
    /\ accepted = NoConn
    /\ sec_ready = [s \in secondary_agents |-> <<>>]
    /\ worker_trigger = [wk \in Workers |-> <<>>]
    /\ running = [wk \in Workers |-> NoSignal]
    /\ rec_log = [r \in recorders |-> <<>>]
    /\ rogue = 0
    /\ spurious = 0
    /\ foreign = 0
    /\ peer_time = [p \in Peers |-> 0]
    /\ now = 0
    /\ task_chain_start = 0
    /\ start_flush = 0
    /\ sleep_log = <<>>
    /\ hellos = {}
    /\ worker_log = [wk \in Workers |-> <<>>]
    /\ trace = <<>>
    /\ ipc_pc = "alive"

\* No stream is followed byte by byte
StreamIdle ==
    /\ tx_signal = Unsent
    /\ tx_frame = <<>>
    /\ tx_sent = 0
    /\ tcp_stream = <<>>
    /\ closed = FALSE
    /\ rd_pc = "idle"
    /\ waiting = FALSE
    /\ buffer = <<>>
    /\ header = <<>>
    /\ rx_pdu = NoPdu
    /\ rx_signal = Unsent

\* No process is followed through the calls of timestamp.rs
BaseIdle ==
    /\ STARTUP_TIME = Unset
    /\ clock = [systime |-> 0, instant |-> 0]
    /\ FACTOR = 0
    /\ callers = <<>>
    /\ base_log = <<>>

\* No constructor is followed
RecordIdle ==
    /\ record = NoRecord
    /\ buf = <<>>
    /\ decoded = DecodeErr("none")
    /\ record_pc = "idle"

BuildIdle ==
    /\ assignment = <<>>
    /\ primary_new = "idle"
    /\ pool_new = <<>>
    /\ dep_map = <<>>
    /\ last_add = NoAdd
    /\ adds = 0
    /\ declared = {}

\* The state after construction of the primary and of its peers, and
\* timestamp::initialize
Unstarted(configs, times) ==
    /\ Configured(configs)
    /\ startup_time \in times
    /\ Constructed
    /\ pc = "bind"
    /\ listening = FALSE
    /\ streams_trigger = <<>>
    /\ streams_ready = <<>>
    /\ up = [c \in ConnIds |-> <<>>]
    /\ down = [c \in ConnIds |-> <<>>]
    /\ wire = [c \in ConnIds |-> <<>>]
    /\ peer_pc = [p \in Peers |-> "connect_in"]

\* That state, with nothing else followed
Unconnected(configs, times) ==
    /\ Unstarted(configs, times)
    /\ StreamIdle
    /\ BaseIdle
    /\ BuildIdle
    /\ RecordIdle

Init == Unconnected(ConnConfigs, OneStartupTime)

InitSync == Unconnected(ConnConfigs, StartupTimes)

\* The state at the entry of Scheduler::run: every expected peer connected
\* with its own two streams, StartupSync written to every trigger stream
Connected(configs, times) ==
    /\ Configured(configs)
    /\ startup_time \in times
    /\ Constructed
    /\ pc = "startup"
    /\ listening = FALSE
    /\ streams_trigger = [p \in Peers |-> InConn(p)]
    /\ streams_ready = [p \in Peers |-> OutConn(p)]
    /\ up = [c \in ConnIds |->
               IF \E r \in recorders : c = InConn(r)
               THEN <<Signal("HelloTrigger", c[1], 0)>>
               ELSE <<>>]
    /\ down = [c \in ConnIds |->
                 IF \E p \in Peers : c = InConn(p)
                 THEN <<Signal("StartupSync", NoId, sync_info)>>
                 ELSE <<>>]
    /\ wire = down
    /\ peer_pc = [p \in Peers |-> "wait_sync"]
    /\ StreamIdle
    /\ BaseIdle
    /\ BuildIdle
    /\ RecordIdle

InitRun == Connected(RunConfigs, OneStartupTime)

InitFence == Connected(FenceConfigs, OneStartupTime)

InitTime == Connected(TimeConfigs, OneStartupTime)

InitWorker == Connected(WorkerConfigs, OneStartupTime)

ConnNext ==
    \/ Bind
    \/ AcceptConnection
    \/ ReceiveHello
    \/ ConnectDone
    \/ SyncTime
    \/ \E p \in Peers : PeerConnectIn(p)
    \/ \E p \in Peers : PeerHelloTrigger(p)
    \/ \E p \in Peers : PeerConnectOut(p)
    \/ \E p \in Peers : PeerHelloReady(p)
    \/ \E r \in recorders : RecorderHello(r)
    \/ \E f \in RogueFrames : RogueConnect(f)

RunNext ==
    \/ StartupActivities
    \/ StartupComplete
    \/ WaitNextReady
    \/ TaskChainStart
    \/ StepForeachReady
    \/ TaskChainEnd
    \/ WaitRecordersReady
    \/ CycleSleep
    \/ \E c \in ConnIds : IpcReceive(c)
    \/ \E p \in Peers : PeerReceiveSync(p)
    \/ \E s \in secondary_agents : SecondaryRelay(s)
    \/ \E s \in secondary_agents : SecondaryForwardReady(s)
    \/ \E r \in recorders : RecorderReceive(r)
    \/ \E wk \in Workers : WorkerReceive(wk)
    \/ \E wk \in Workers : WorkerSendReady(wk)

\* RunNext with recorders that also send RecorderReady frames of their own
FenceNext ==
    \/ RunNext
    \/ \E r \in recorders, id \in recorders \cup {UnexpectedId} : SpuriousRecorderReady(r, id)

\* The part of RunNext up to the end of the first task chain
FirstChainNext ==
    \/ StartupActivities
    \/ StartupComplete
    \/ WaitNextReady
    \/ TaskChainStart
    \/ StepForeachReady
    \/ \E c \in ConnIds : IpcReceive(c)
    \/ \E p \in Peers : PeerReceiveSync(p)
    \/ \E s \in secondary_agents : SecondaryRelay(s)
    \/ \E s \in secondary_agents : SecondaryForwardReady(s)
    \/ \E r \in recorders : RecorderReceive(r)
    \/ \E wk \in Workers : WorkerReceive(wk)
    \/ \E wk \in Workers : WorkerSendReady(wk)

Next == ConnNext \/ FenceNext

\* The whole deployment from construction on
Spec == Init /\ [][Next]_vars

\* The deployment from the entry of Scheduler::run on
RunSpec == InitRun /\ [][RunNext]_vars

\* The deployments with recorders from the entry of Scheduler::run on, the
\* recorders sending RecorderReady frames beyond the ones of their code
FenceSpec == InitFence /\ [][FenceNext]_vars

\* The deployment from construction to the end of the first task chain
ConnSpec == Init /\ [][ConnNext \/ FirstChainNext]_vars

\* The steps of the connection phase that the expected processes take by
\* themselves
ConnProgress ==
    \/ Bind
    \/ AcceptConnection
    \/ ReceiveHello
    \/ ConnectDone
    \/ SyncTime
    \/ \E p \in Peers : PeerConnectIn(p)
    \/ \E p \in Peers : PeerHelloTrigger(p)
    \/ \E p \in Peers : PeerConnectOut(p)
    \/ \E p \in Peers : PeerHelloReady(p)
    \/ \E r \in recorders : RecorderHello(r)

\* The deployment with a secondary and a recorder that malformed frames
\* on ready streams are followed in
GarbleConfigs == {Config(AgentMapRemote, DepTwo, {"R1"})}

InitGarble == Connected(GarbleConfigs, OneStartupTime)

GarbleNext ==
    \/ RunNext
    \/ \E p \in Peers : \E bytes \in MalformedFrames : GarbledReady(p, bytes)

\* The scheduler loop with peers that may write a malformed frame
GarbleSpec == InitGarble /\ [][GarbleNext]_vars

\* The connection phase with connections of unexpected processes, whose
\* first frame is a signal or any bytes
HelloNext ==
    \/ ConnProgress
    \/ \E f \in RogueFrames : RogueConnect(f)
    \/ \E bytes \in MalformedFrames : RogueConnect(RawFrame(bytes))

HelloSpec == Init /\ [][HelloNext]_vars

\* The steps from construction to the end of the first task chain with
\* the expected peers only, and trigger streams that may carry a frame that
\* is not the primary's
SyncNext ==
    \/ ConnProgress
    \/ FirstChainNext
    \/ \E p \in Peers, f \in ForeignFrames : ForeignFrame(p, f)

\* The deployment from construction to the end of the first task chain,
\* for each startup time of the primary
SyncSpec == InitSync /\ [][SyncNext]_vars

\* The state at the entry of PrimaryAgent::run: the agents constructed, no
\* time base initialised, nothing bound or connected
InitStart ==
    /\ Configured(ConnConfigs)
    /\ startup_time = 0
    /\ Constructed
    /\ pc = "initialize"
    /\ listening = FALSE
    /\ streams_trigger = <<>>
    /\ streams_ready = <<>>
    /\ up = [c \in ConnIds |-> <<>>]
    /\ down = [c \in ConnIds |-> <<>>]
    /\ wire = [c \in ConnIds |-> <<>>]
    /\ peer_pc = [p \in Peers |-> "connect_in"]
    /\ StreamIdle
    /\ BaseIdle
    /\ BuildIdle
    /\ RecordIdle

StartNext ==
    \/ PrimaryInitialize
    \/ SyncNext

\* The deployment from the entry of PrimaryAgent::run to the end of the
\* first task chain
StartSpec == InitStart /\ [][StartNext]_vars

\* The scheduler with its peers and workers while time passes
TimeSpec == InitTime /\ [][RunNext \/ Tick]_vars

\* The steps of the workers whose trigger queues are filled on their own
WorkerNext ==
    \/ \E wk \in Workers : \E signal \in Triggerable(wk) : Feed(wk, signal)
    \/ \E wk \in Workers : WorkerReceive(wk)
    \/ \E wk \in Workers : WorkerSendReady(wk)

\* The workers on their own, for every sequence of signals in their queues
WorkerSpec == InitWorker /\ [][WorkerNext]_vars

\* RunSpec where every thread that can take a step eventually takes one:
\* each thread of the deployment runs on its own and blocks only in a
\* receive
FairRunSpec == RunSpec /\ WF_vars(RunNext)

\* ConnSpec where every thread that can take a step eventually takes one
FairConnSpec == ConnSpec /\ WF_vars(ConnProgress \/ FirstChainNext)

\* The deployment the agents are left in while one unit is followed
UnitConfigs == {Config(AgentMapLocal, DepSingle, {})}

\* A writer with a signal of the sample set to send, or a peer with a
\* malformed frame to write, and a reader entering recv
InitStream ==
    /\ Unstarted(UnitConfigs, OneStartupTime)
    /\ BaseIdle
    /\ BuildIdle
    /\ RecordIdle
    /\ \/ tx_signal \in CodecSignals /\ tx_frame = <<>>
       \/ tx_signal = Unsent /\ tx_frame \in MalformedFrames
    /\ tx_sent = 0
    /\ tcp_stream = <<>>
    /\ closed = FALSE
    /\ rd_pc = "recv"
    /\ waiting = FALSE
    /\ buffer = <<>>
    /\ header = <<>>
    /\ rx_pdu = NoPdu
    /\ rx_signal = Unsent

StreamNext ==
    \/ Encode
    \/ PduSend
    \/ \E k \in 0..Len(Unwritten) : PeerClose(k)
    \/ Recv
    \/ ReadBuffer
    \/ ReadHeaderDone
    \/ ReadDataDone
    \/ Decode
    \/ RecvAgain

\* One frame over one stream: encoded, written, read and decoded
StreamSpec == InitStream /\ [][StreamNext]_vars

\* The instants of the monotonic clock, the sync infos received and the
\* speed factors the time base is followed for; the system time is
\* WallOffset ahead of the instant
StartInstants == {1, 3}
WallOffset == 2
SyncInfos == {1, 3, 5}
Factors == {0, 2, 0 - 2, 3}

\* A process with its time base not initialised and its speed factor set
InitBase ==
    /\ Unstarted(UnitConfigs, OneStartupTime)
    /\ StreamIdle
    /\ BuildIdle
    /\ RecordIdle
    /\ STARTUP_TIME = Unset
    /\ \E i \in StartInstants : clock = [systime |-> i + WallOffset, instant |-> i]
    /\ FACTOR \in Factors
    /\ callers = [t \in Threads |-> NoCall]
    /\ base_log = <<>>

BaseNext ==
    \/ \E t \in Threads : InitializeBegin(t)
    \/ \E t \in Threads : \E sync \in SyncInfos : InitializeFromBegin(t, sync)
    \/ \E t \in Threads : OnceSet(t)
    \/ \E t \in Threads : SyncInfoCall(t)
    \/ \E t \in Threads : TimestampCall(t)
    \/ ClockAdvance

\* The calls into timestamp.rs of the threads of one process
BaseSpec == InitBase /\ [][BaseNext]_vars

\* The agents, their workers and the activity ids of the assignment lists
\* the constructors are followed for
BuildWorkers == ("P" :> {"W1", "W2"}) @@ ("S1" :> {"W3"})
BuildActivities == {1, 2}

\* The groups of activities of one worker: the sequences of at most
\* MaxGroup ids, repetitions included
Groups == UNION {[1..n -> BuildActivities] : n \in 0..MaxGroup}

\* The assignment lists: every worker of every agent with a group
Assignments ==
    {map \in [DOMAIN BuildWorkers -> UNION {[BuildWorkers[g] -> Groups] : g \in DOMAIN BuildWorkers}] :
        \A g \in DOMAIN BuildWorkers : DOMAIN map[g] = BuildWorkers[g]}

\* An assignment list handed to the constructor of the primary and to the
\* worker pool constructors of the agents
InitBuild ==
    /\ Unstarted(UnitConfigs, OneStartupTime)
    /\ StreamIdle
    /\ BaseIdle
    /\ RecordIdle
    /\ assignment \in Assignments
    /\ primary_new = "config"
    /\ pool_new = [g \in DOMAIN BuildWorkers |-> "config"]
    /\ dep_map = <<>>
    /\ last_add = NoAdd
    /\ adds = 0
    /\ declared = {}

BuildNext ==
    \/ ActivityConnectorNew
    \/ PrimaryRun
    \/ \E g \in DOMAIN assignment : WorkerPoolNew(g)

\* The constructors of the agents over the assignment lists
BuildSpec == InitBuild /\ [][BuildNext]_vars

\* The records the encoding is followed for: strings as sequences of bytes
SampleStamps == {[secs |-> 0, nanos |-> 0], [secs |-> 66051, nanos |-> 7],
                 [secs |-> 5, nanos |-> 999999999]}
SampleTargets == {<<>>, <<116>>}
SampleFiles == {NoneStr, SomeStr(<<>>), SomeStr(<<102, 46>>)}
SampleLines == {NoneLine, SomeLine(0), SomeLine(42), SomeLine(258)}
SampleArgs == {<<>>, <<97>>, <<97, 0, 98>>, <<255>>}
Records ==
    [timestamp : SampleStamps, level : Levels, target : SampleTargets, file : SampleFiles,
     line : SampleLines, tgid : {1}, tid : {2, 515}, args : SampleArgs]

\* A record handed to encode
InitRecord ==
    /\ Unstarted(UnitConfigs, OneStartupTime)
    /\ StreamIdle
    /\ BaseIdle
    /\ BuildIdle
    /\ record \in Records
    /\ buf = <<>>
    /\ decoded = DecodeErr("none")
    /\ record_pc = "new"

RecordNext ==
    \/ RecordEncode
    \/ RecordDecode

\* One record encoded and the bytes decoded
RecordSpec == InitRecord /\ [][RecordNext]_vars

\* The lists of dependencies handed to add_dependencies
DependencyLists == {<<>>, <<1>>, <<2>>, <<1, 2>>}

\* The dependency maps the builder starts from: the empty map, and maps with
\* an entry inserted directly
InitialDepMaps == {<<>>, (1 :> <<>>), (1 :> <<2>>)}

\* The assignment lists without an activity assigned twice, the secondary
\* without activities
DepAssignments ==
    {map \in Assignments : /\ InsertEach(MapEntries(map, DOMAIN map), {})
                           /\ map["S1"]["W3"] = <<>>}

\* A dependency map built with the builder, then handed with an agent map to
\* the constructor of the primary
InitDep ==
    /\ Unstarted(UnitConfigs, OneStartupTime)
    /\ StreamIdle
    /\ BaseIdle
    /\ RecordIdle
    /\ assignment \in DepAssignments
    /\ primary_new = "config"
    /\ pool_new = [g \in DOMAIN BuildWorkers |-> "config"]
    /\ dep_map \in InitialDepMaps
    /\ last_add = NoAdd
    /\ adds = 0
    /\ declared = {}

DepNext ==
    \/ \E a \in BuildActivities, d \in BuildActivities : AddDependency(a, d)
    \/ \E a \in BuildActivities, ds \in DependencyLists : AddDependencies(a, ds)
    \/ ActivityConnectorNew
    \/ PrimaryRun

\* The dependency builder and the constructor of the primary
DepSpec == InitDep /\ [][DepNext]_vars

\* ------------------------------------------------------------------ history of the scheduler

\* The scheduler emitted the signal at position i of its history
EmittedAt(i, tag) == trace[i].dir = "emit" /\ trace[i].sig.tag = tag

\* The scheduler received a Ready of the activity at position i
ReadyAt(i, act_id) ==
    trace[i].dir = "recv" /\ trace[i].sig.tag = "Ready" /\ trace[i].sig.id = act_id

\* Position i is the emission of the chain signal of cycle c
ChainSignalAt(i, tag, c) == trace[i] = Emitted(Signal(tag, NoId, c))

\* The scheduler has emitted TaskChainEnd of cycle c
ChainEnded(c) == \E i \in DOMAIN trace : ChainSignalAt(i, "TaskChainEnd", c)

\* The scheduler has emitted TaskChainStart of cycle c
ChainStarted(c) == \E i \in DOMAIN trace : ChainSignalAt(i, "TaskChainStart", c)

\* A Ready of the activity was received after TaskChainStart of cycle c and
\* before position i
ReadyInCycleBefore(act_id, c, i) ==
    \E k \in 1..(i - 1), j \in 1..(i - 1) :
        /\ k < j
        /\ ChainSignalAt(k, "TaskChainStart", c)
        /\ ReadyAt(j, act_id)

\* ------------------------------------------------------------------ C1

\* C1: whenever the scheduler emits Step(a), it has received, earlier in the
\* same cycle, a Ready(d) for every dependency d that the dependency map
\* lists for a.
C1_StepAfterDependenciesReady ==
    \A i \in DOMAIN trace :
        EmittedAt(i, "Step") =>
            \A d \in activity_depends[trace[i].sig.id] :
                ReadyInCycleBefore(d, trace[i].sig.ts, i)

\* ------------------------------------------------------------------ C2

\* The Steps the scheduler emitted whose Ready it has not received
OutstandingSteps ==
    {trace[i].sig : i \in {n \in DOMAIN trace :
        /\ EmittedAt(n, "Step")
        /\ ~\E j \in DOMAIN trace :
              j > n /\ ReadyAt(j, trace[n].sig.id) /\ trace[j].sig.ts = trace[n].sig.ts}}

\* C2: a Step of cycle n+1 is emitted only after the Ready of every activity
\* of cycle n was received and TaskChainEnd of cycle n was emitted; Steps of
\* two different cycles are never outstanding together.
C2_CycleSeparation ==
    /\ \A i \in DOMAIN trace :
          (EmittedAt(i, "Step") /\ trace[i].sig.ts > 1) =>
              \E e \in 1..(i - 1) :
                  /\ ChainSignalAt(e, "TaskChainEnd", trace[i].sig.ts - 1)
                  /\ \A a \in DOMAIN activity_depends :
                        ReadyInCycleBefore(a, trace[i].sig.ts - 1, e)
    /\ \A s, t \in OutstandingSteps : s.ts = t.ts

\* A Step of a second cycle is outstanding
C2_Witness ==
    \E s \in OutstandingSteps : s.ts > 1

\* ------------------------------------------------------------------ C3

\* The dependency relation among the scheduled activities
DependsOn == {<<a, d>> \in (DOMAIN activity_depends) \X (DOMAIN activity_depends) :
                 d \in activity_depends[a]}

\* The pairs a relation links in two steps
Compose(R) == {<<p[1][1], p[2][2]>> : p \in {z \in R \X R : z[1][2] = z[2][1]}}

RECURSIVE Closure(_, _)
\* The pairs a relation links in at most n + 1 steps
Closure(R, n) == IF n = 0 THEN R ELSE Closure(R \cup Compose(R), n - 1)

\* The premises of C3 on the configuration: the dependency graph is acyclic
\* and every dependency is itself a scheduled activity
Schedulable ==
    /\ \A a \in DOMAIN activity_depends : activity_depends[a] \subseteq DOMAIN activity_depends
    /\ \A a \in DOMAIN activity_depends :
          <<a, a>> \notin Closure(DependsOn, Cardinality(DOMAIN activity_depends))

\* C3: with an acyclic dependency graph whose dependencies are all scheduled,
\* and workers and recorders that respond, every cycle that starts reaches
\* its TaskChainEnd, and the TaskChainEnd is followed by the TaskChainStart
\* of the next cycle (for the cycles the model follows).
C3_CyclesComplete ==
    \A c \in 1..MaxCycles :
        /\ (Schedulable /\ cycle = c) ~> ChainEnded(c)
        /\ (Schedulable /\ ChainEnded(c) /\ c < MaxCycles) ~> ChainStarted(c + 1)

\* The last cycle followed has ended, with recorders and with activities on
\* a secondary
C3_Witness ==
    /\ Schedulable
    /\ recorders # {}
    /\ secondary_agents # {}
    /\ ChainEnded(MaxCycles)
    /\ pc = "chain_start"

\* ------------------------------------------------------------------ C4

\* C4: in every reachable state of the scheduler (after construction, in the
\* startup phase and in every cycle) an activity whose ready flag is set has
\* its triggered flag set.
C4_ReadyImpliesTriggered ==
    \A a \in DOMAIN activity_states :
        activity_states[a].ready => activity_states[a].triggered

\* ------------------------------------------------------------------ C5

\* C5: when the scheduler emits TaskChainEnd, the ready flag and the
\* triggered flag of every activity of the dependency map are set.
C5_AllReadyAtChainEnd ==
    [][(\E i \in (Len(trace) + 1)..Len(trace') :
            trace'[i].dir = "emit" /\ trace'[i].sig.tag = "TaskChainEnd")
          => \A a \in DOMAIN activity_depends :
                /\ a \in DOMAIN activity_states
                /\ activity_states[a].ready
                /\ activity_states[a].triggered]_vars

\* TaskChainEnd of a second cycle was emitted for a graph with a join
C5_Witness ==
    /\ activity_depends = DepJoin
    /\ ChainEnded(2)

\* ------------------------------------------------------------------ C6

\* Position i of the history is the reception of a RecorderReady of the id
RecorderReadyAt(i, id) ==
    trace[i].dir = "recv" /\ trace[i].sig.tag = "RecorderReady" /\ trace[i].sig.id = id

\* Every registered recorder's RecorderReady was received after position e
\* and before position i
FlushedBetween(e, i) ==
    \A r \in recorders : \E j \in (e + 1)..(i - 1) : RecorderReadyAt(j, r)

Written(r) ==
    SelectSeq(rec_log[r] \o down[streams_trigger[r]], LAMBDA sig : sig.tag # "StartupSync")

\* The history entries the scheduler hands to the recorders: what it emitted
\* after StartupSync, and the Ready signals it received
Mirrored ==
    LET kept == SelectSeq(trace, LAMBDA e :
                    \/ e.dir = "emit" /\ e.sig.tag # "StartupSync"
                    \/ e.dir = "recv" /\ e.sig.tag = "Ready")
    IN  [i \in DOMAIN kept |-> kept[i].sig]

\* The positions of a signal in a sequence of signals
Positions(w, sig) == {i \in DOMAIN w : w[i] = sig}

\* The part of a stream from TaskChainStart of cycle c at position b to
\* TaskChainEnd of cycle c at position e holds, for every activity, exactly
\* one Step and one Ready, the Step first, and nothing else
ChainWellFormed(w, b, e, c) ==
    /\ b < e
    /\ e - b - 1 = 2 * Cardinality(DOMAIN activity_depends)
    /\ \A a \in DOMAIN activity_depends :
          \E i, j \in (b + 1)..(e - 1) :
              /\ i < j
              /\ w[i] = Signal("Step", a, c)
              /\ w[j] = Signal("Ready", a, c)

\* C7: the stream of every recorder carries the signals in the order the
\* scheduler produced them, and for every cycle: TaskChainStart, then for
\* every activity exactly one Step and one mirrored Ready with the Step
\* first, then TaskChainEnd; no signal of the next cycle precedes the
\* TaskChainEnd.
C7_RecorderStream ==
    \A r \in recorders :
        LET w == Written(r) IN
        /\ w = Mirrored
        /\ \A c \in 1..MaxCycles :
              /\ Cardinality(Positions(w, Signal("TaskChainStart", NoId, c))) <= 1
              /\ Cardinality(Positions(w, Signal("TaskChainEnd", NoId, c))) <= 1
              /\ \A e \in Positions(w, Signal("TaskChainEnd", NoId, c)) :
                    /\ \E b \in Positions(w, Signal("TaskChainStart", NoId, c)) :
                          ChainWellFormed(w, b, e, c)
                    /\ \A i \in 1..(e - 1) : w[i].ts <= c
                    /\ \A i \in (e + 1)..Len(w) : w[i].ts > c

\* A recorder has recorded two whole cycles of two activities, one of them
\* on a secondary
C7_Witness ==
    \E r \in recorders :
        /\ secondary_agents # {}
        /\ Cardinality(DOMAIN activity_depends) = 2
        /\ \E i \in DOMAIN rec_log[r] : rec_log[r][i] = Signal("TaskChainEnd", NoId, 2)

\* ------------------------------------------------------------------ C8

\* The primary has read the HelloTrigger and the HelloReady of the id
HellosAccepted(id) ==
    /\ \E h \in hellos : h.sig.tag = "HelloTrigger" /\ h.sig.id = id
    /\ \E h \in hellos : h.sig.tag = "HelloReady" /\ h.sig.id = id

\* The primary has sent a signal to a peer or to a worker
HasSent ==
    \/ \E i \in DOMAIN trace :
          trace[i].dir = "emit" /\ trace[i].sig.tag \in {"StartupSync", "Startup", "Step"}
    \/ \E c \in DOMAIN down : down[c] # <<>>
    \/ \E wk \in DOMAIN worker_trigger : worker_trigger[wk] # <<>>

\* C8: the primary sends no StartupSync, Startup or Step before every
\* expected secondary and every expected recorder has delivered both its
\* HelloTrigger and its HelloReady.
C8_NoSignalBeforeAllHellos ==
    HasSent => \A p \in secondary_agents \cup recorders : HellosAccepted(p)

\* A Step was emitted for an activity of a secondary, with a recorder
\* expected as well
C8_Witness ==
    /\ recorders # {}
    /\ \E i \in DOMAIN trace :
          /\ EmittedAt(i, "Step")
          /\ activity_map[trace[i].sig.id][1] \in secondary_agents

\* ------------------------------------------------------------------ C9

\* C9: with every expected peer connecting and sending its hellos, the
\* connection phase of the primary eventually completes, whatever the order
\* in which connections and hellos arrive (stated for the runs in which no
\* other process connects).
C9_ConnectionPhaseCompletes ==
    <>(pc \notin {"bind", "connect", "hello_recv"} \/ rogue > 0)

\* ------------------------------------------------------------------ C10

\* The frame read by wait_and_handle_hello in the step, if it reads one
HelloRead == Head(up[accepted])

\* The step is a read of a hello by wait_and_handle_hello
ReadsHello == pc = "hello_recv" /\ pc' = "connect"

\* The step leaves a map of retained streams alone, or adds the accepted
\* connection under an expected id that had no stream in it, on a hello of
\* the given role carrying that id
RetainsFirst(streams, streams_after, tag) ==
    \/ streams_after = streams
    \/ /\ ReadsHello
       /\ HelloRead.tag = tag
       /\ HelloRead.id \in secondary_agents \cup recorders
       /\ HelloRead.id \notin DOMAIN streams
       /\ DOMAIN streams_after = DOMAIN streams \cup {HelloRead.id}
       /\ streams_after[HelloRead.id] = accepted
       /\ \A id \in DOMAIN streams : streams_after[id] = streams[id]

\* C10: per agent id and role at most one stream is retained, the one of the
\* first connection that delivered that hello; a later connection with the
\* same id and role, and a hello of an unexpected id, changes nothing.
C10_FirstStreamRetained ==
    [][/\ RetainsFirst(streams_trigger, streams_trigger', "HelloTrigger")
       /\ RetainsFirst(streams_ready, streams_ready', "HelloReady")
       /\ (ReadsHello /\ HelloRead.tag = "HelloTrigger"
              /\ HelloRead.id \in secondary_agents \cup recorders
              /\ ~\E h \in hellos : h.sig = HelloRead)
          => (HelloRead.id \in DOMAIN streams_trigger'
                 /\ streams_trigger'[HelloRead.id] = accepted)
       /\ (ReadsHello /\ HelloRead.tag = "HelloReady"
              /\ HelloRead.id \in secondary_agents \cup recorders
              /\ ~\E h \in hellos : h.sig = HelloRead)
          => (HelloRead.id \in DOMAIN streams_ready'
                 /\ streams_ready'[HelloRead.id] = accepted)]_vars

\* A connection that delivered a hello with an id and role that already had
\* a stream was dropped, and so was one with an unexpected id
C10_Witness ==
    \/ \E h, g \in hellos :
          /\ h.conn # g.conn
          /\ h.sig = g.sig
          /\ h.sig.tag = "HelloTrigger"
          /\ h.sig.id \in DOMAIN streams_trigger
          /\ streams_trigger[h.sig.id] = g.conn
          /\ h.conn[1] = "rogue"
    \/ \E h, g \in hellos :
          /\ h.conn # g.conn
          /\ h.sig = g.sig
          /\ h.sig.tag = "HelloReady"
          /\ h.sig.id \in DOMAIN streams_ready
          /\ streams_ready[h.sig.id] = g.conn
          /\ g.conn[1] = "rogue"

\* ------------------------------------------------------------------ C11

\* The positions of a frame sequence that hold a signal of the tag
TagPositions(frames, tag) == {i \in 1..Len(frames) : frames[i].tag = tag}

\* The primary is past sync_time
Synced == pc \notin {"bind", "connect", "hello_recv", "sync"}

\* C11: the primary writes nothing to a trigger stream before sync_time, and
\* from sync_time on the frames it has written to the trigger stream of each
\* secondary and each recorder start with StartupSync carrying the
\* primary's startup time, and hold no other StartupSync; every Startup and
\* Step on the stream comes after it.
C11_StartupSyncOnceFirst ==
    /\ ~Synced => \A c \in ConnIds : wire[c] = <<>>
    /\ Synced =>
         \A p \in Peers :
            /\ p \in DOMAIN streams_trigger
            /\ TagPositions(wire[streams_trigger[p]], "StartupSync") = {1}
            /\ wire[streams_trigger[p]][1] = Signal("StartupSync", NoId, startup_time)
            /\ \A i \in TagPositions(wire[streams_trigger[p]], "Startup")
                       \cup TagPositions(wire[streams_trigger[p]], "Step") : i > 1

\* A secondary and a recorder whose trigger streams hold frames after the
\* StartupSync, the secondary's a Step, for the later startup time
C11_Witness ==
    /\ startup_time = 2
    /\ Synced
    /\ \E s \in secondary_agents : TagPositions(wire[streams_trigger[s]], "Step") # {}
    /\ \E r \in recorders : Len(wire[streams_trigger[r]]) > 1

\* ------------------------------------------------------------------ C12

\* The stream has a frame more after the step, and that frame is the signal
Sends(stream, signal) ==
    /\ Len(stream') = Len(stream) + 1
    /\ stream'[Len(stream')] = signal

\* The frames the secondary writes while it connects: HelloTrigger on the
\* first connection, then HelloReady on the second, and nothing else
HandshakeStep(s) ==
    /\ Len(up'[InConn(s)]) > Len(up[InConn(s)]) =>
          /\ peer_pc[s] = "hello_trigger"
          /\ Sends(up[InConn(s)], Signal("HelloTrigger", s, 0))
          /\ up[InConn(s)] = <<>> /\ up[OutConn(s)] = <<>>
          /\ OutConn(s) \notin Range(backlog) /\ accepted # OutConn(s)
    /\ (Len(up'[OutConn(s)]) > Len(up[OutConn(s)]) /\ peer_pc[s] # "running") =>
          /\ peer_pc[s] = "hello_ready"
          /\ Sends(up[OutConn(s)], Signal("HelloReady", s, 0))

\* A worker of the secondary is handed a trigger signal in the step
ForwardsTrigger(s) ==
    \E wk \in Workers : wk[1] = s /\ Len(worker_trigger'[wk]) > Len(worker_trigger[wk])

\* The secondary reads a first frame that is not StartupSync in the step
ReadsOtherFirst(s) ==
    /\ peer_pc[s] = "wait_sync"
    /\ down[InConn(s)] # <<>>
    /\ Head(down[InConn(s)]).tag # "StartupSync"
    /\ down'[InConn(s)] = Tail(down[InConn(s)])

\* C12: a secondary writes HelloTrigger on its first connection and then
\* HelloReady on its second; it hands a trigger to a worker only when it has
\* read StartupSync and its time base is the primary's startup time, so no
\* worker of it holds or runs a trigger before; reading a first frame that
\* is not StartupSync ends the secondary, which stays ended and has
\* forwarded nothing.
C12_SecondaryHandshakeAndSync ==
    /\ [][\A s \in secondary_agents :
            /\ HandshakeStep(s)
            /\ ForwardsTrigger(s) =>
                  peer_pc[s] = "running" /\ peer_time[s] = initialize_from(startup_time)
            /\ ReadsOtherFirst(s) =>
                  peer_pc'[s] = "panicked" /\ peer_time'[s] = 0 /\ ~ForwardsTrigger(s)
            /\ peer_pc[s] = "panicked" => peer_pc'[s] = "panicked" /\ ~ForwardsTrigger(s)]_vars
    /\ [](\A wk \in Workers :
            (wk[1] \in secondary_agents
                /\ (worker_trigger[wk] # <<>> \/ running[wk] # NoSignal))
            => peer_time[wk[1]] = startup_time)

\* A worker of a secondary runs an activity; the secondary's two hellos were
\* read by the primary and its time base is the later startup time
C12_Witness ==
    \E wk \in Workers :
        /\ wk[1] \in secondary_agents
        /\ IsTrigger(running[wk])
        /\ startup_time = 2 /\ peer_time[wk[1]] = 2
        /\ \E h \in hellos : h.conn = InConn(wk[1]) /\ h.sig.tag = "HelloTrigger"
        /\ \E h \in hellos : h.conn = OutConn(wk[1]) /\ h.sig.tag = "HelloReady"

\* A secondary ended by a first frame that is not StartupSync, after the
\* primary has sent its StartupSync and the Startup signals
C12_AbortWitness ==
    \E s \in secondary_agents :
        /\ peer_pc[s] = "panicked"
        /\ foreign > 0
        /\ TagPositions(wire[InConn(s)], "Startup") # {}

\* ------------------------------------------------------------------ C13

\* The positions of the trace where the scheduler emitted a Startup
StartupPositions == {i \in 1..Len(trace) : EmittedAt(i, "Startup")}

\* C13: once the scheduler has left its startup loop, it has emitted exactly
\* one Startup for every activity of its state map and none for anything
\* else, and of two Startup signals the earlier has the smaller activity id;
\* before the loop it has emitted none.
C13_StartupAscendingOnce ==
    /\ pc \in {"bind", "connect", "hello_recv", "sync", "startup"} => StartupPositions = {}
    /\ pc \notin {"bind", "connect", "hello_recv", "sync", "startup"} =>
         /\ \A a \in DOMAIN activity_depends :
               Cardinality({i \in StartupPositions : trace[i].sig.id = a}) = 1
         /\ \A i \in StartupPositions : trace[i].sig.id \in DOMAIN activity_depends
         /\ \A i, j \in StartupPositions : i < j => trace[i].sig.id < trace[j].sig.id

\* Three activities were started and the scheduler is in a later cycle
C13_Witness ==
    /\ Cardinality(StartupPositions) = 3
    /\ cycle > 1

\* ------------------------------------------------------------------ C14

\* The scheduler received, before position i, the Ready that answers the
\* Startup of the activity, after it had emitted that Startup
StartupReadyBefore(i, act_id) ==
    \E j \in 1..(i - 1) :
        /\ ReadyAt(j, act_id)
        /\ trace[j].sig.ts = 0
        /\ \E k \in 1..(j - 1) : EmittedAt(k, "Startup") /\ trace[k].sig.id = act_id

\* C14: wherever the scheduler emitted a TaskChainStart or a Step, it had
\* received before, for every activity of its state map, the Ready that
\* answers the activity's Startup.
C14_NoStepBeforeStartupReady ==
    \A i \in 1..Len(trace) :
        (EmittedAt(i, "TaskChainStart") \/ EmittedAt(i, "Step")) =>
            \A a \in DOMAIN activity_depends : StartupReadyBefore(i, a)

\* A Step was emitted in a deployment of three activities, two of them on
\* a secondary
C14_Witness ==
    /\ \E i \in 1..Len(trace) : EmittedAt(i, "Step")
    /\ Cardinality(DOMAIN activity_depends) = 3
    /\ secondary_agents # {}

\* ------------------------------------------------------------------ C15

\* The number of trigger signals for the activity in a sequence of signals
TriggersIn(frames, act_id) ==
    Cardinality({i \in 1..Len(frames) : IsTrigger(frames[i]) /\ frames[i].id = act_id})

\* The number of Ready signals of the activity in a sequence of signals
ReadysIn(frames, act_id) ==
    Cardinality({i \in 1..Len(frames) : frames[i].tag = "Ready" /\ frames[i].id = act_id})

\* The number of Startup and Step signals the scheduler emitted for the activity
TriggersEmitted(act_id) ==
    Cardinality({i \in 1..Len(trace) :
                    /\ EmittedAt(i, "Startup") \/ EmittedAt(i, "Step")
                    /\ trace[i].sig.id = act_id})

\* The triggers for the activity under way to the agent that owns it
OnStream(act_id) ==
    LET g == activity_map[act_id][1]
    IN  IF g = local_agent_id THEN 0 ELSE TriggersIn(down[streams_trigger[g]], act_id)

\* The triggers for the activity the worker holds: queued, and in execution
HeldBy(wk, act_id) ==
    TriggersIn(worker_trigger[wk], act_id)
        + (IF IsTrigger(running[wk]) /\ running[wk].id = act_id THEN 1 ELSE 0)

\* The Ready signals of the activity: under way to the scheduler or received by it
Answered(act_id) ==
    LET g == activity_map[act_id][1]
    IN  ReadysIn(intra_ready, act_id)
          + Cardinality({i \in 1..Len(trace) : ReadyAt(i, act_id)})
          + (IF g = local_agent_id THEN 0
             ELSE ReadysIn(sec_ready[g], act_id) + ReadysIn(up[streams_ready[g]], act_id))

\* C15: every Startup and Step the scheduler emitted for an activity is, once
\* each, under way on the trigger stream of the activity's agent, held by
\* the worker the agent map assigns the activity to, or answered by a Ready;
\* no other worker holds a trigger for the activity, no worker has failed on
\* a signal, and no trigger stream of another secondary carries it.
C15_TriggerToOwningWorker ==
    \A a \in DOMAIN activity_depends :
        /\ TriggersEmitted(a) = OnStream(a) + HeldBy(activity_map[a], a) + Answered(a)
        /\ \A wk \in Workers \ {activity_map[a]} : HeldBy(wk, a) = 0
        /\ \A wk \in Workers : running[wk].tag # "Panicked"
        /\ \A g \in secondary_agents \ (recorders \cup {activity_map[a][1]}) :
               TriggersIn(down[streams_trigger[g]], a) = 0

\* On a secondary with two workers each worker runs the Step of its
\* activity while the worker of the primary has answered its own
C15_Witness ==
    \E s \in secondary_agents :
        /\ Cardinality({wk \in Workers : wk[1] = s}) = 2
        /\ \A wk \in Workers : wk[1] = s => running[wk].tag = "Step"
        /\ \E i \in 1..Len(trace) : trace[i].dir = "recv" /\ trace[i].sig.ts > 0

\* ------------------------------------------------------------------ C16

\* The order in which the keys were put into the dependency map: the maps
\* of the modelled deployments are built key by key in ascending order
insertion_order == SeqOfSet(DOMAIN activity_depends)

\* The position of the activity in the insertion order
InsertedAt(act_id) == CHOOSE i \in DOMAIN insertion_order : insertion_order[i] = act_id

\* C16: in a deployment whose dependency map can be scheduled, two Step
\* signals emitted one right after the other, with no Ready received in
\* between, belong to one dispatch pass; the one emitted first is for the
\* activity put into the dependency map first.
C16_StepsInInsertionOrder ==
    Schedulable =>
        \A i \in 1..(Len(trace) - 1) :
            (EmittedAt(i, "Step") /\ EmittedAt(i + 1, "Step")) =>
                InsertedAt(trace[i].sig.id) < InsertedAt(trace[i + 1].sig.id)

\* ------------------------------------------------------------------ C17

\* The deployment of C17: the chain 1 <- 2 <- 3 on one worker of the primary
LinearChain == agent_map = AgentMapLocal /\ activity_depends = DepChain /\ recorders = {}

\* What the scheduler emits and receives in cycle c after TaskChainStart
ChainOfCycle(c) ==
    << Emitted(Signal("Step", 1, c)), Received(Signal("Ready", 1, c)),
       Emitted(Signal("Step", 2, c)), Received(Signal("Ready", 2, c)),
       Emitted(Signal("Step", 3, c)), Received(Signal("Ready", 3, c)),
       Emitted(Signal("TaskChainEnd", NoId, c)) >>

\* The entries of the trace that follow position i, at most n of them
Following(i, n) == SubSeq(trace, i + 1, IF i + n <= Len(trace) THEN i + n ELSE Len(trace))

\* C17: with the chain 1 <- 2 <- 3 on one agent with one worker, what
\* follows the TaskChainStart of a cycle in the scheduler's emissions and
\* receptions is Step(1), Ready(1), Step(2), Ready(2), Step(3), Ready(3),
\* TaskChainEnd, as far as the cycle has come.
C17_LinearChainSequence ==
    LinearChain =>
        \A i \in 1..Len(trace) :
            EmittedAt(i, "TaskChainStart") =>
                Following(i, 7) = SubSeq(ChainOfCycle(trace[i].sig.ts), 1, Len(Following(i, 7)))

\* The second cycle of the chain deployment has emitted its TaskChainEnd
C17_Witness ==
    /\ LinearChain
    /\ \E i \in 1..Len(trace) : EmittedAt(i, "TaskChainEnd") /\ trace[i].sig.ts = 2

\* ------------------------------------------------------------------ C18

\* The greater of two durations
Max(a, b) == IF a >= b THEN a ELSE b

\* The start of the cycle that follows the k-th finished cycle
NextStart(k) == IF k < Len(sleep_log) THEN sleep_log[k + 1].start ELSE task_chain_start

MatchingMethod(tag) ==
    IF tag = "Startup" THEN "startup" ELSE IF tag = "Step" THEN "step" ELSE "shutdown"

\* The ready channel a worker sends on
ReadyChannel(wk) == IF wk[1] = local_agent_id THEN intra_ready ELSE sec_ready[wk[1]]

\* The signals a worker has sent, in order
SentBy(wk) ==
    LET sends == SelectSeq(worker_log[wk], LAMBDA e : e.ev = "send")
    IN  [i \in DOMAIN sends |-> sends[i].sig]

\* Entry i of the log is the taking of a trigger for an activity of the worker
TriggerTaken(wk, i) ==
    /\ worker_log[wk][i].ev = "recv"
    /\ IsTrigger(worker_log[wk][i].sig)
    /\ worker_log[wk][i].sig.id \in WorkerActivities(wk)

\* C19: in the log of every worker, a trigger taken for an activity of the
\* worker is followed at once by one call of the method that belongs to the
\* trigger, and the call, once the method has returned, by one Ready with
\* the same activity id; until then the worker is in the method and has sent
\* nothing for it. Every call follows a taken trigger and every sent signal
\* a call, a signal that is no trigger ends the worker without a call or a
\* Ready, and the ready channel of the worker (from which nothing is taken
\* here) holds what the worker has sent and nothing else.
C19_OneReadyPerTrigger ==
    \A wk \in Workers :
        LET log == worker_log[wk] IN
        /\ ReadyChannel(wk) = SentBy(wk)
        /\ \A i \in 1..Len(log) :
            /\ TriggerTaken(wk, i) =>
                  /\ i < Len(log)
                  /\ log[i + 1].ev = "call"
                  /\ log[i + 1].sig = log[i].sig
                  /\ log[i + 1].method = MatchingMethod(log[i].sig.tag)
                  /\ IF i + 2 <= Len(log)
                     THEN /\ log[i + 2].ev = "send"
                          /\ log[i + 2].sig.tag = "Ready"
                          /\ log[i + 2].sig.id = log[i].sig.id
                     ELSE running[wk] = log[i].sig
            /\ (log[i].ev = "recv" /\ ~TriggerTaken(wk, i)) =>
                  i = Len(log) /\ running[wk].tag = "Panicked"
            /\ log[i].ev = "call" => i > 1 /\ TriggerTaken(wk, i - 1)
            /\ log[i].ev = "send" => i > 2 /\ log[i - 1].ev = "call" /\ TriggerTaken(wk, i - 2)

\* A worker of a secondary has answered a Startup and a Shutdown, and the
\* worker of the primary has been ended by a signal that is no trigger
C19_Witness ==
    /\ \E wk \in Workers :
          /\ wk[1] \in secondary_agents
          /\ Len(worker_log[wk]) = 6
          /\ running[wk] = NoSignal
          /\ \E i \in 1..6 : worker_log[wk][i].method = "startup"
          /\ \E i \in 1..6 : worker_log[wk][i].method = "shutdown"
    /\ \E wk \in Workers : wk[1] = local_agent_id /\ running[wk].tag = "Panicked"

\* ------------------------------------------------------------------ C20

\* The number of Ready signals of the activity the workers of the agent have sent
ReadysSentOn(s, act_id) ==
    Cardinality(UNION {{<<wk, i>> : i \in {j \in 1..Len(worker_log[wk]) :
                                              /\ worker_log[wk][j].ev = "send"
                                              /\ worker_log[wk][j].sig.id = act_id}} :
                       wk \in {w \in Workers : w[1] = s}})

\* The number of Ready signals of the activity the secondary has written to
\* its ready stream: under way to the scheduler or received by it
ReadysForwarded(s, act_id) ==
    ReadysIn(up[streams_ready[s]], act_id) + ReadysIn(intra_ready, act_id)
        + Cardinality({i \in 1..Len(trace) : ReadyAt(i, act_id)})

\* The agent loop of the secondary takes a signal from its ready channel in the step
TakesReady(s) == sec_ready[s] # <<>> /\ sec_ready'[s] = Tail(sec_ready[s])

\* C20: on a secondary, for every activity, the Ready signals its workers
\* have sent are the ones still in the agent's ready channel plus the ones
\* written to the ready stream, one for one; and each turn of the agent
\* loop takes the oldest Ready from the channel and writes one Ready with
\* the same activity id to the ready stream, and nothing else.
C20_ReadyForwardedOnce ==
    /\ [](\A s \in secondary_agents : \A a \in PoolActivities(s) :
             ReadysSentOn(s, a) = ReadysIn(sec_ready[s], a) + ReadysForwarded(s, a))
    /\ [][\A s \in secondary_agents :
            /\ TakesReady(s) =>
                  /\ Head(sec_ready[s]).tag = "Ready"
                  /\ Len(up'[streams_ready[s]]) = Len(up[streams_ready[s]]) + 1
                  /\ up'[streams_ready[s]][Len(up'[streams_ready[s]])].tag = "Ready"
                  /\ up'[streams_ready[s]][Len(up'[streams_ready[s]])].id = Head(sec_ready[s]).id
            /\ Len(up'[streams_ready[s]]) > Len(up[streams_ready[s]]) => TakesReady(s)]_vars

\* Two workers of a secondary have sent the Ready of their Step before the
\* agent loop has taken the first of the two; the Ready signals of the
\* startup were forwarded before
C20_Witness ==
    \E s \in secondary_agents :
        /\ Len(sec_ready[s]) = 2
        /\ sec_ready[s][1].ts > 0 /\ sec_ready[s][2].ts > 0
        /\ sec_ready[s][1].id # sec_ready[s][2].id

\* ------------------------------------------------------------------ C21

\* C21: for every signal of the ten variants, the signal decoded from the
\* PDU that encoding produced and the stream carried is the signal that was
\* encoded, and no other signal is encoded to the same frame.
C21_RoundTripInjective ==
    tx_signal # Unsent =>
        /\ rd_pc = "signal" => rx_signal = tx_signal
        /\ \A other \in CodecSignals :
              Frame(SignalPdu_from(other)) = Frame(SignalPdu_from(tx_signal))
                  => other = tx_signal

\* A signal with an id and a time of several bytes each has made the round
C21_Witness ==
    /\ rd_pc = "signal"
    /\ tx_signal = Signal("RecorderReady", 16909060, 66051)
    /\ rx_signal = tx_signal

\* ------------------------------------------------------------------ C22

\* The order in which the signal variants are listed
ListedOrder ==
    <<"HelloTrigger", "HelloReady", "StartupSync", "TaskChainStart", "TaskChainEnd",
      "Startup", "Step", "Shutdown", "Ready", "RecorderReady">>

ListedPosition(tag) == (CHOOSE i \in 1..Len(ListedOrder) : ListedOrder[i] = tag) - 1

\* C22: the tag byte of the frame written for a signal is the position,
\* from 0, of its variant in the listed order.
C22_TagIsListedPosition ==
    (tx_signal # Unsent /\ tx_frame # <<>>) =>
        tx_frame[1] = ListedPosition(tx_signal.tag)

\* ------------------------------------------------------------------ C25

\* The writer has closed with only a part of its frame written
ClosedInFrame == closed /\ 0 < tx_sent /\ tx_sent < Len(tx_frame)

\* C25: a read of a frame of which the peer wrote only a part before it
\* closed does not end in a loop that repeats unchanged or in a wait that
\* nothing ends.
C25_PartialFrameReadEnds ==
    ClosedInFrame => rd_pc \notin {"spinning", "blocked"}

\* ------------------------------------------------------------------ C26

\* The writer has closed between two frames: nothing of a frame is written,
\* or all of it
ClosedBetweenFrames == closed /\ tx_sent \in {0, Len(tx_frame)}

\* C26: the reader of a stream closed between two frames does not keep
\* waiting on it.
C26_EofEndsReader ==
    ClosedBetweenFrames => rd_pc # "blocked"

\* ------------------------------------------------------------------ C23

IsHello(signal) == signal.tag \in {"HelloTrigger", "HelloReady"}

\* C23: in the connection phase the primary keeps running after it has read
\* a first frame that is malformed or is not a hello.
C23_BadFirstFrameDropped ==
    \A h \in hellos : ~IsHello(h.sig) => pc # "panicked"

\* ------------------------------------------------------------------ C24

\* C24: after a malformed frame on a ready stream the Ready signals of the
\* other peers are still delivered: the thread that forwards the frames of
\* all ready streams to the scheduler is alive whenever a signal is pending
\* on one of them.
C24_OthersStillDelivered ==
    \A g \in DOMAIN streams_ready :
        (up[streams_ready[g]] # <<>> /\ ~IsRaw(Head(up[streams_ready[g]])))
            => ipc_pc = "alive"

\* ------------------------------------------------------------------ C27

\* C27: once the startup time is stored, it stays as it is, and every call
\* of initialize or initialize_from that ends, ends in a panic, whichever
\* thread makes it and whether it began before or after the time was stored.
C27_TimeBaseWrittenOnce ==
    [][STARTUP_TIME.set =>
          /\ STARTUP_TIME' = STARTUP_TIME
          /\ \A t \in Threads :
                (callers[t].pc = "set" /\ callers'[t].pc # "set")
                    => callers'[t].pc = "panicked"]_vars

\* Two threads were in their calls at once: one stored its time, the other
\* panicked on the set; and a call made after the time was stored panicked
C27_Witness ==
    /\ STARTUP_TIME.set
    /\ \E i, j \in 1..Len(base_log) :
          /\ i < j
          /\ base_log[i].result = "ok" /\ base_log[i].op = "initialize_from"
          /\ base_log[j].result = "panic_set" /\ base_log[j].op = "initialize"
          /\ base_log[j].thread # base_log[i].thread
          /\ STARTUP_TIME.systime = base_log[i].arg

\* ------------------------------------------------------------------ C28

\* C28: after initialize_from(s) has returned, sync_info() returns s.
C28_SyncInfoRoundTrip ==
    \A i, j \in 1..Len(base_log) :
        (/\ i < j
         /\ base_log[i].op = "initialize_from" /\ base_log[i].result = "ok"
         /\ base_log[j].op = "sync_info" /\ base_log[j].result = "ok")
            => base_log[j].value = base_log[i].arg

\* initialize_from has returned for a sync info earlier than the local
\* system time, and sync_info was called after it
C28_Witness ==
    \E i, j \in 1..Len(base_log) :
        /\ i < j
        /\ base_log[i].op = "initialize_from" /\ base_log[i].result = "ok"
        /\ base_log[i].arg < clock.systime
        /\ base_log[j].op = "sync_info" /\ base_log[j].value = base_log[i].arg

\* ------------------------------------------------------------------ C29

\* C29: timestamp() is the real time since the startup instant multiplied
\* by a positive speed factor, divided by the absolute value of a negative
\* one, and unscaled without a factor.
C29_TimestampScaled ==
    \A i \in 1..Len(base_log) :
        (base_log[i].op = "timestamp" /\ base_log[i].result = "ok") =>
            base_log[i].value =
                IF FACTOR > 0 THEN base_log[i].arg * FACTOR
                ELSE IF FACTOR < 0 THEN base_log[i].arg \div (0 - FACTOR)
                ELSE base_log[i].arg

\* ------------------------------------------------------------------ C30

\* The places of the assignment list of the given agents: agent, worker and
\* position in the worker's group
Places(agents) ==
    {pl \in agents \X (UNION {DOMAIN assignment[g] : g \in agents}) \X (1..MaxGroup) :
        /\ pl[2] \in DOMAIN assignment[pl[1]]
        /\ pl[3] <= Len(assignment[pl[1]][pl[2]])}

\* An activity id is assigned at two places of the given agents
AssignedTwice(agents) ==
    \E p1, p2 \in Places(agents) :
        /\ p1 # p2
        /\ assignment[p1[1]][p1[2]][p1[3]] = assignment[p2[1]][p2[2]][p2[3]]

\* C30: with an activity id assigned more than once in the agent map the
\* construction of the primary agent does not succeed and its run loop does
\* not start, and with one assigned more than once to the workers of an
\* agent the construction of the worker pool of that agent does not succeed.
C30_DuplicateActivityPanics ==
    /\ AssignedTwice(DOMAIN assignment) => primary_new \in {"config", "panicked"}
    /\ \A g \in DOMAIN assignment : AssignedTwice({g}) => pool_new[g] \in {"config", "panicked"}

\* Activity 1 is assigned twice to one worker of the primary's pool and
\* activity 2 to workers of two agents: the primary's pool and the primary
\* have panicked, the other pool, without a duplicate of its own, is built
C30_Witness ==
    /\ assignment["P"]["W1"] = <<1, 1>>
    /\ assignment["P"]["W2"] = <<2>>
    /\ assignment["S1"]["W3"] = <<2>>
    /\ pool_new["P"] = "panicked"
    /\ pool_new["S1"] = "built"
    /\ primary_new = "panicked"

\* ------------------------------------------------------------------ C31

\* C31: where the dependency map names an activity, as key or as dependency,
\* that no worker of the agent map is assigned, the primary agent is not
\* built: construction does not complete and the run loop is not entered.
C31_UnassignedActivityRejected ==
    (\E a \in NamedActivities : a \notin AssignedActivities)
        => primary_new \in {"config", "panicked"}

\* ------------------------------------------------------------------ C32

\* C32: in a map the builder calls returned from, no activity is in its own
\* list of dependencies.
C32_NoSelfDependency ==
    primary_new # "panicked" => \A a \in DOMAIN dep_map : a \notin Range(dep_map[a])

\* ------------------------------------------------------------------ C33

\* The number of occurrences of an id in a list
Occurrences(list, d) == Cardinality({i \in DOMAIN list : list[i] = d})

\* C33: after add_dependency(a, d) with a # d returned, the list of a holds
\* d once, next to the entries it held before and nothing else, and the
\* lists of the other activities are as before.
C33_DependencyAdded ==
    (last_add.op = "add_dependency" /\ last_add.result = "ok") =>
        LET a == last_add.activity_id
            d == last_add.dependencies[1]
            old == ListOf(last_add.before, a)
            new == ListOf(dep_map, a)
        IN  /\ Range(new) = Range(old) \cup {d}
            /\ Occurrences(new, d) = 1
            /\ \A e \in Range(old) : Occurrences(new, e) >= Occurrences(old, e)
            /\ \A b \in (DOMAIN dep_map \cup DOMAIN last_add.before) \ {a} :
                   ListOf(dep_map, b) = ListOf(last_add.before, b)

\* ------------------------------------------------------------------ C37

\* C37: once the primary is built, every activity that is assigned to a
\* worker and was declared through add_dependencies, with an empty list
\* included, is one of the activities the scheduler starts and steps.
C37_DeclaredActivityScheduled ==
    primary_new \in {"built", "running"} =>
        \A a \in declared \cap AssignedActivities : a \in ScheduledActivities

\* ------------------------------------------------------------------ C35

\* The positions of the history where Step of the activity was emitted with
\* the number of cycle c
StepsOf(a, c) == {i \in DOMAIN trace : trace[i] = Emitted(Signal("Step", a, c))}

\* C35: between TaskChainStart and TaskChainEnd of a cycle the scheduler
\* emits Step(a) exactly once for every activity a of the dependency map: a
\* Step of a cycle lies after the TaskChainStart of the cycle and is the only
\* one of its activity, and at TaskChainEnd every activity has had its Step.
C35_OneStepPerCycle ==
    \A c \in 1..MaxCycles : \A a \in DOMAIN activity_depends :
        /\ Cardinality(StepsOf(a, c)) <= 1
        /\ \A i \in StepsOf(a, c) :
              \E k \in 1..(i - 1) : ChainSignalAt(k, "TaskChainStart", c)
        /\ \A e \in DOMAIN trace :
              ChainSignalAt(e, "TaskChainEnd", c) =>
                  /\ \E i \in StepsOf(a, c) : i < e
                  /\ \A i \in StepsOf(a, c) : i < e

\* Two cycles of a map of three activities in a chain have ended
C35_Witness ==
    /\ activity_depends = DepChain
    /\ ChainEnded(1)
    /\ ChainEnded(2)

\* ------------------------------------------------------------------ C36

\* The dependency map has no cycle: every non-empty set of its activities
\* has a member that depends on none of the set
Acyclic(deps) ==
    \A S \in SUBSET DOMAIN deps :
        S # {} => \E a \in S : deps[a] \cap S = {}

\* C36: with an acyclic dependency map, whenever the scheduler waits on the
\* ready channel inside a cycle, an activity was stepped in the cycle whose
\* Ready it has not received: its triggered flag is set, its ready flag not.
C36_WaitsForTriggeredActivity ==
    (pc = "wait_ready" /\ Acyclic(activity_depends)) =>
        \E a \in DOMAIN activity_states :
            /\ activity_states[a].triggered
            /\ ~activity_states[a].ready
            /\ \E s \in OutstandingSteps : s.id = a /\ s.ts = cycle

\* The scheduler waits in the second cycle with an empty ready channel, one
\* activity of a chain ready and the next one stepped
C36_Witness ==
    /\ pc = "wait_ready"
    /\ activity_depends = DepChain
    /\ cycle = 2
    /\ intra_ready = <<>>
    /\ \E a \in DOMAIN activity_states : activity_states[a].ready
    /\ \E a \in DOMAIN activity_states :
          activity_states[a].triggered /\ ~activity_states[a].ready

\* ------------------------------------------------------------------ C38

\* A Ready of an activity is on its way to the scheduler: in the ready
\* channel, on a ready stream or in the channel of a secondary
ReadyInFlight ==
    \/ \E i \in DOMAIN intra_ready : intra_ready[i].tag = "Ready"
    \/ \E c \in DOMAIN up : \E i \in DOMAIN up[c] : up[c][i].tag = "Ready"
    \/ \E g \in DOMAIN sec_ready : \E i \in DOMAIN sec_ready[g] : sec_ready[g][i].tag = "Ready"

\* The number of the cycle position j of the history lies in, 0 for the
\* startup
CycleAt(j) == Cardinality({k \in 1..(j - 1) : EmittedAt(k, "TaskChainStart")})

\* The trigger position j answers: the last emission of a trigger of the
\* activity of the Ready at j, 0 where there is none
AnsweredAt(j) ==
    LET before == {i \in 1..(j - 1) :
                      /\ trace[i].dir = "emit"
                      /\ IsTrigger(trace[i].sig)
                      /\ trace[i].sig.id = trace[j].sig.id}
    IN  IF before = {} THEN 0 ELSE CHOOSE i \in before : \A k \in before : k <= i

\* C38: when the scheduler is about to emit TaskChainStart, and when it has
\* just emitted it, no Ready is in the ready channel or on its way; every
\* Ready received in a cycle was sent for a Step of that cycle and every
\* Ready received in the startup for a Startup, one Ready for one trigger.
C38_ReadyAnswersTriggerOfPhase ==
    /\ (pc = "chain_start" \/ (trace # <<>> /\ EmittedAt(Len(trace), "TaskChainStart")))
          => ~ReadyInFlight
    /\ \A j \in DOMAIN trace :
          (trace[j].dir = "recv" /\ trace[j].sig.tag = "Ready") =>
              LET i == AnsweredAt(j) IN
              /\ i > 0
              /\ trace[i].sig.tag = IF CycleAt(j) = 0 THEN "Startup" ELSE "Step"
              /\ trace[i].sig.ts = CycleAt(j)
              /\ trace[j].sig.ts = CycleAt(j)
              /\ CycleAt(i) = CycleAt(j) \/ (CycleAt(j) = 0 /\ CycleAt(i) = 0)
              /\ ~\E k \in (i + 1)..(j - 1) : ReadyAt(k, trace[j].sig.id)

\* The second TaskChainStart was just emitted, after Readys of a secondary's
\* activities were received in the startup and in the first cycle
C38_Witness ==
    /\ trace # <<>>
    /\ ChainSignalAt(Len(trace), "TaskChainStart", 2)
    /\ secondary_agents # {}
    /\ \E j \in DOMAIN trace : trace[j].dir = "recv" /\ trace[j].sig.tag = "Ready"
                                  /\ CycleAt(j) = 0
    /\ \E j \in DOMAIN trace : trace[j].dir = "recv" /\ trace[j].sig.tag = "Ready"
                                  /\ CycleAt(j) = 1

\* ------------------------------------------------------------------ C39

\* The signals of the entries of a history or log that satisfy the test,
\* in order
SignalsOf(log, Test(_)) ==
    LET sel == SelectSeq(log, Test) IN [i \in DOMAIN sel |-> sel[i].sig]

\* The triggers the scheduler has emitted for the activities of the worker
TriggersSentTo(wk) ==
    SignalsOf(trace, LAMBDA e : /\ e.dir = "emit"
                                /\ IsTrigger(e.sig)
                                /\ e.sig.id \in WorkerActivities(wk))

\* The triggers the worker has taken, then those waiting in its channel
TriggersArrivedAt(wk) ==
    SignalsOf(worker_log[wk], LAMBDA e : e.ev = "recv") \o worker_trigger[wk]

\* C39: a worker runs one activity at a time and in the order the triggers
\* were sent: the triggers it has taken and those in its channel are, in
\* order, the first triggers sent for its activities; each call follows the
\* receipt of its trigger; and on each call that has returned the worker
\* sends Ready of its activity before it takes the next trigger.
C39_OneActivityAtATimeInOrder ==
    \A wk \in Workers :
        LET log == worker_log[wk]
            arrived == TriggersArrivedAt(wk)
            sent == TriggersSentTo(wk)
        IN  /\ Len(arrived) <= Len(sent)
            /\ \A i \in DOMAIN arrived : arrived[i] = sent[i]
            /\ \A i \in DOMAIN log :
                  /\ log[i].ev = "call" =>
                        /\ i > 1 /\ log[i - 1] = Taken(log[i].sig)
                        /\ i < Len(log) =>
                              log[i + 1] = Sent(Signal("Ready", log[i].sig.id, log[i].sig.ts))
                        /\ i = Len(log) => running[wk] = log[i].sig
                  /\ (log[i].ev = "recv" /\ i > 1) => log[i - 1].ev = "send"
                  /\ log[i].ev = "send" => i > 1 /\ log[i - 1].ev = "call"

\* A worker has stepped two of its activities in one cycle and sent Ready
\* of both, while triggers of a later cycle were sent to it
C39_Witness ==
    \E wk \in Workers : \E i, j \in DOMAIN worker_log[wk] :
        /\ i < j
        /\ worker_log[wk][i].ev = "call" /\ worker_log[wk][j].ev = "call"
        /\ worker_log[wk][i].sig.tag = "Step" /\ worker_log[wk][j].sig.tag = "Step"
        /\ worker_log[wk][i].sig.ts = worker_log[wk][j].sig.ts
        /\ worker_log[wk][i].sig.id # worker_log[wk][j].sig.id
        /\ worker_log[wk][Len(worker_log[wk])].ev = "send"
        /\ cycle = 2

\* ------------------------------------------------------------------ C40

\* The startup time of the time base of the process of an agent, 0 while
\* the process has not initialised it
ProcessTime(g) == IF g = local_agent_id THEN startup_time ELSE peer_time[g]

\* The signals the primary stamps with timestamp() when it emits them
IsStamped(signal) ==
    signal.tag \in {"Startup", "Step", "Shutdown", "TaskChainStart", "TaskChainEnd"}

\* C40: no thread of an agent calls timestamp() before the time base of its
\* process is initialised: in every step in which the primary emits a
\* stamped signal, a worker sends a Ready, a secondary forwards a Ready or a
\* recorder stamps a record or a RecorderReady, the time base of that
\* process was initialised before the step.
C40_TimestampAfterInitialise ==
    [][ /\ (\E i \in DOMAIN trace' \ DOMAIN trace :
                trace'[i].dir = "emit" /\ IsStamped(trace'[i].sig))
              => ProcessTime(local_agent_id) # 0
        /\ \A wk \in Workers :
              (\E i \in DOMAIN worker_log'[wk] \ DOMAIN worker_log[wk] :
                  worker_log'[wk][i].ev = "send")
                => ProcessTime(wk[1]) # 0
        /\ \A p \in Peers :
              (\E i \in DOMAIN up'[OutConn(p)] \ DOMAIN up[OutConn(p)] :
                  up'[OutConn(p)][i].tag \in {"Ready", "RecorderReady"})
                => ProcessTime(p) # 0
        /\ \A r \in recorders :
              Len(rec_log'[r]) > Len(rec_log[r]) => ProcessTime(r) # 0
      ]_vars

\* In the first cycle a worker of a secondary has sent Ready, the secondary
\* has forwarded one, and a recorder has recorded a Step stamped by the
\* primary
C40_Witness ==
    /\ cycle = 1
    /\ startup_time # 0
    /\ \E wk \in Workers :
          /\ wk[1] # local_agent_id
          /\ peer_time[wk[1]] # 0
          /\ \E i \in DOMAIN worker_log[wk] :
                worker_log[wk][i].ev = "send" /\ worker_log[wk][i].sig.ts = 1
    /\ \E j \in DOMAIN trace : ReadyAt(j, 1) /\ trace[j].sig.ts = 1
    /\ \E r \in recorders : peer_time[r] # 0 /\ rec_log[r] # <<>>

\* ------------------------------------------------------------------ C34

\* C34: the bytes encode wrote for a record decode to a record with the same
\* timestamp, level, target, file, line and args.
C34_RecordRoundTrip ==
    record_pc = "decoded" =>
        /\ decoded.ok
        /\ decoded.value.timestamp = record.timestamp
        /\ decoded.value.level = record.level
        /\ decoded.value.target = record.target
        /\ decoded.value.file = record.file
        /\ decoded.value.line = record.line
        /\ decoded.value.args = record.args

====
